---- MODULE Spec2Model ----
(***************************************************************************)
(* A model of tarstall's lifecycle engine (prog_manage.py): the persisted  *)
(* manifest (config.db / ~/.tarstall/database), the managed tree           *)
(* (~/.tarstall/bin), the two profile files (~/.tarstall/.bashrc and       *)
(* ~/.tarstall/.fishrc), the launcher directory                            *)
(* (~/.local/share/applications), the staging area (/tmp/tarstall-temp)    *)
(* and the process lock (/tmp/tarstall-lock).                              *)
(*                                                                         *)
(* Every function of prog_manage.py is cut into steps at the points where  *)
(* it changes something outside the process; pc names the step the         *)
(* running process is at.  A process that is killed, or that raises an     *)
(* uncaught exception, stops where it is: its in-memory manifest is lost   *)
(* and the lock file stays (Crash, Raise).                                 *)
(*                                                                         *)
(* Program names, file names and the name parts of profile lines are       *)
(* sequences of one-character strings, so that the substring replacement   *)
(* rename() does on the profile files can be computed.                     *)
(***************************************************************************)
EXTENDS Integers, Sequences, FiniteSets, TLC

VARIABLES
    pc,       \* the step the running process is at; "idle": no process
    ctx,      \* the arguments and locals of the operation in progress
    ret,      \* the value the last finished operation returned
    db,       \* config.db, the in-memory manifest of the running process
    disk,     \* ~/.tarstall/database, the persisted manifest
    bin,      \* ~/.tarstall/bin: program directory name -> set of entries
    bashrc,   \* ~/.tarstall/.bashrc, a sequence of lines
    fishrc,   \* ~/.tarstall/.fishrc, a sequence of lines
    apps,     \* ~/.local/share/applications: desktop name -> file content
    temp,     \* /tmp/tarstall-temp exists
    lock,     \* /tmp/tarstall-lock exists
    engine,   \* the installed engine files under ~/.tarstall
    staging,  \* /tmp/tarstall-update exists
    crashes,  \* number of interruptions so far
    peer,     \* the step a second, concurrent invocation is at
    temp2,    \* /tmp/tarstall-temp2 exists
    backup,   \* ~/.tarstall/database-backup-<date>.bak, the manifest moved there
    ops,      \* number of operations the caller may still start
    hist      \* history of the round trip / call in progress (ghost)

vars == <<pc, ctx, ret, db, disk, bin, bashrc, fishrc, apps, temp, lock,
          engine, staging, crashes, peer, temp2, backup, ops,
          hist>>

(***************************************************************************)
(* Bounds of the model.                                                    *)
(***************************************************************************)
MaxCrashes == 1
MaxOps == 3

(***************************************************************************)
(* Names.                                                                  *)
(***************************************************************************)
NameA == <<"a">>
NameB == <<"b">>
NoName == <<>>
Names == {NameA, NameB}
UnsafeName == <<"#">>
PayloadFile == <<"x">>
TempBase == <<"t">>

Prefix(p, x) == Len(p) <= Len(x) /\ SubSeq(x, 1, Len(p)) = p

\* str.replace(p, q) on a text that starts with the name x, where the
\* replaced text ends with p: x starts with p, and p is exchanged for q.
ReplacePrefix(x, p, q) ==
    IF Prefix(p, x) THEN q \o SubSeq(x, Len(p) + 1, Len(x)) ELSE x

Range(s) == {s[i] : i \in 1..Len(s)}

(***************************************************************************)
(* The manifest.                                                           *)
(***************************************************************************)
FileVersion == 17
ProgVersion == 100

Sentinel == [refresh |-> TRUE]

\* What config.get_db() yields when ~/.tarstall/database is missing: the
\* empty manifest {} of the "DB Broken" check.
NotFound == [notfound |-> TRUE]

NoPrograms == [n \in {} |-> 0]

get_default_db ==
    [options |-> [Verbose |-> FALSE, AutoInstall |-> FALSE,
                  ShellFile |-> "bashrc", SkipQuestions |-> FALSE,
                  UpdateURLPrograms |-> FALSE, PressEnterKey |-> TRUE],
     version |-> [file_version |-> FileVersion,
                  prog_internal_version |-> ProgVersion,
                  branch |-> "master"],
     programs |-> NoPrograms]

NewRecord(install_type) ==
    [install_type |-> install_type, desktops |-> {},
     post_upgrade_script |-> "None", update_url |-> "None",
     has_path |-> FALSE, binlinks |-> {}]

HasPrograms(d) == "programs" \in DOMAIN d

Installed(d) == IF HasPrograms(d) THEN DOMAIN d.programs ELSE {}

PutProgram(d, n, r) ==
    [d EXCEPT !.programs =
        [x \in DOMAIN d.programs \cup {n} |->
            IF x = n THEN r ELSE d.programs[x]]]

DelProgram(d, n) ==
    [d EXCEPT !.programs = [x \in DOMAIN d.programs \ {n} |-> d.programs[x]]]

(***************************************************************************)
(* Profile lines.  A line the engine writes is                             *)
(*   export PATH=$PATH:~/.tarstall/bin/<dir> # <tag>              (bash)   *)
(*   set PATH $PATH ~/.tarstall/bin/<dir> # <tag>                 (fish)   *)
(*   alias <name>='cd ~/.tarstall/bin/<dir>/ && ./<file>' # <tag> (bash)   *)
(*   function <name>;cd ~/.tarstall/bin/<dir>/;./<file>;end # <tag> (fish) *)
(***************************************************************************)
PathLine(p) ==
    [kind |-> "path", name |-> NoName, dir |-> p, file |-> NoName, tag |-> p]

AliasLine(n, p, f) ==
    [kind |-> "alias", name |-> n, dir |-> p, file |-> f, tag |-> p]

EngineLine ==
    [kind |-> "engine", name |-> NoName, dir |-> NoName, file |-> NoName,
     tag |-> NoName]

\* config.add_line: append the line unless an identical line is present.
add_line(line, file) ==
    IF line \in Range(file) THEN file ELSE Append(file, line)

\* config.remove_line(program, file, 'poundword'): drop every line whose
\* trailing tag is the program.
KeepsLine(l, program) == l.tag # program

remove_line(program, file) ==
    SelectSeq(file, LAMBDA l : KeepsLine(l, program))

TaggedLines(file, p) == {i \in 1..Len(file) : file[i].tag = p}

PathLines(file, p) ==
    {i \in 1..Len(file) : file[i].kind = "path" /\ file[i].tag = p}

MapLines(file, F(_)) == [i \in 1..Len(file) |-> F(file[i])]

(***************************************************************************)
(* The managed tree.                                                       *)
(***************************************************************************)
NoDirs == [n \in {} |-> {}]

Dirs == DOMAIN bin

PutDir(b, n, c) == [x \in DOMAIN b \cup {n} |-> IF x = n THEN c ELSE b[x]]

\* Faulty variant: the whole managed tree is removed.
rmtreeAll(b, n) == [x \in {} |-> b[x]]

rmtree(b, n) == [x \in DOMAIN b \ {n} |-> b[x]]

\* shutil.move(src, dst) of a directory named base into the managed tree:
\* a destination that is a directory receives the source inside it.
MoveFails(b, dst, base) == dst \in DOMAIN b /\ base \in b[dst]

MoveInto(b, dst, base, content) ==
    IF dst \in DOMAIN b THEN PutDir(b, dst, b[dst] \cup {base})
    ELSE PutDir(b, dst, content)

(***************************************************************************)
(* The process frame: calls, returns, exceptions and interruptions.        *)
(***************************************************************************)
NoArch == [exists |-> FALSE, name |-> NoName, ext |-> "none", layout |-> "flat"]

NoCtx ==
    [op |-> "none", prog |-> NoName, new |-> NoName, arch |-> NoArch,
     ow |-> "None", todo |-> {}, single |-> FALSE, branch |-> "none",
     reset |-> FALSE, force |-> FALSE, online |-> 0, extracted |-> FALSE,
     cur |-> <<>>, git |-> FALSE, refresh |-> FALSE, status |-> "none",
     progress |-> [n |-> 0, d |-> 1], adder |-> [n |-> 0, d |-> 1]]

\* A value passed to generic.progress: the quotient n / d of Python's true
\* division, kept exact.
Frac(n, d) == [n |-> n, d |-> d]

Whole(v) == Frac(v, 1)

Plus(v, w) == Frac(v.n * w.d + w.n * v.d, v.d * w.d)

\* The history (ghost): origin is the manifest that was persisted when the
\* behaviour began; the other fields follow the call in progress; ran is the
\* log of what the update sources of an update_program call did, and bar
\* the values the call in progress passed to generic.progress.
History(origin) ==
    [rt |-> "none", prog |-> NoName, programs |-> NoPrograms, dirs |-> {},
     origin |-> origin, ran |-> <<>>, bar |-> <<>>]

Result(op, prog, val) == [op |-> op, prog |-> prog, val |-> val]

\* No operation has returned since the one in progress was called.
NoResult == Result("none", NoName, "none")

fsvars == <<bin, bashrc, fishrc, apps, temp>>
dbvars == <<db, disk>>
envvars == <<lock, engine, staging>>

\* config.write_db(): the persisted manifest becomes the in-memory one.
write_db(d) == disk' = d

\* A public operation is called on a started engine.  For an install of a
\* name the manifest does not hold, hist keeps the manifest's programs and
\* the directories of the managed tree as they were, and rt says how far the
\* round trip install-uninstall has come.  For a pathify of a program that
\* is not on PATH, rt says whether it returned and was called again.  Any
\* other call forgets the history.
CallBar(op, prog, new, rt, vals) ==
    /\ pc = "ready"
    /\ ops > 0
    /\ ops' = ops - 1
    /\ hist' = [(IF rt = "none" THEN History(hist.origin)
                 ELSE [rt |-> rt, prog |-> prog, origin |-> hist.origin,
                       ran |-> <<>>, bar |-> <<>>,
                       programs |-> IF rt \in {"installing", "overwriting",
                                               "replacing", "upgrading"}
                                    THEN disk.programs
                                    ELSE IF rt = "uninstalling"
                                    THEN hist.programs
                                    ELSE NoPrograms,
                       dirs |-> IF rt = "installing" THEN DOMAIN bin
                                ELSE IF rt = "uninstalling" THEN hist.dirs
                                ELSE IF rt = "upgrading" /\ prog \in DOMAIN bin
                                THEN bin[prog]
                                ELSE {}]) EXCEPT !.bar = vals]

\* A call that passes nothing to generic.progress before its first step.
Call(op, prog, new, rt) == CallBar(op, prog, new, rt, <<>>)

\* The operation in progress returns val to its caller.
Return(val) ==
    /\ pc' = "ready"
    /\ ctx' = NoCtx
    /\ ret' = Result(ctx.op, ctx.prog, val)

\* An uncaught exception ends the process where it is: the in-memory
\* manifest is lost (the next process loads the persisted one) and the lock
\* file stays.
Raise(what) ==
    /\ pc' = "idle"
    /\ ctx' = NoCtx
    /\ ret' = Result(ctx.op, ctx.prog, what)
    /\ db' = disk
    /\ hist' = History(hist.origin)

\* The history (ghost) notes what an external tool or update source did.
Log(what) == hist' = [hist EXCEPT !.ran = Append(@, what)]

\* generic.progress (generic.py lines 176-204), called with each of vals in
\* turn.
progress(h, vals) == [h EXCEPT !.bar = @ \o vals]

\* A source is logged and vals are passed to generic.progress.
LogBar(what, vals) ==
    hist' = progress([hist EXCEPT !.ran = Append(@, what)], vals)

\* The process is killed between two steps of an operation.
Crash ==
    /\ pc \notin {"idle", "ready"}
    /\ crashes < MaxCrashes
    /\ crashes' = crashes + 1
    /\ Raise("Killed")
    /\ UNCHANGED <<disk, fsvars, envvars, ops, peer, temp2, backup>>

(***************************************************************************)
(* The engine's own files under ~/.tarstall: file -> the version it is of. *)
(***************************************************************************)
EngineFiles == {"prog_manage.py", "tarstall_execs"}

InstalledEngine(v) == [f \in EngineFiles |-> v]

NoEngine == [f \in {} |-> "old"]

PutEngine(e, f, v) == [x \in DOMAIN e \cup {f} |-> IF x = f THEN v ELSE e[x]]

DelEngine(e, f) == [x \in DOMAIN e \ {f} |-> e[x]]

\* config.exists('~/.tarstall/tarstall_execs/tarstall')
EngineInstalled(e) == "tarstall_execs" \in DOMAIN e

(***************************************************************************)
(* tarstall_startup.                                                       *)
(***************************************************************************)
\* Faulty variant: a startup that finds the lock held and is not asked to
\* clear it removes the lock file all the same.
StartupLockClears(del_lock) ==
    /\ pc = "idle"
    /\ db' = disk
    /\ IF lock
       THEN /\ lock' = FALSE
            /\ ret' = Result("tarstall_startup", NoName,
                             IF del_lock THEN "Unlocked" ELSE "Locked")
            /\ UNCHANGED <<pc, ctx>>
       ELSE /\ lock' = TRUE
            /\ pc' = IF disk = Sentinel THEN "st_dg_create" ELSE "st_checks"
            /\ ctx' = [NoCtx EXCEPT !.op = "tarstall_startup",
                                    !.refresh = (disk = Sentinel)]
            /\ ret' = NoResult
    /\ UNCHANGED <<disk, fsvars, engine, staging, crashes, peer, temp2, backup, ops, hist>>

\* Lines 557-569: the lock check and the downgrade check.  A new process
\* has loaded the persisted manifest into config.db.
StartupLock(del_lock) ==
    /\ pc = "idle"
    /\ db' = disk
    /\ IF lock
       THEN /\ lock' = (IF del_lock THEN FALSE ELSE lock)
            /\ ret' = Result("tarstall_startup", NoName,
                             IF del_lock THEN "Unlocked" ELSE "Locked")
            /\ UNCHANGED <<pc, ctx>>
       ELSE /\ lock' = TRUE
            /\ pc' = IF disk = Sentinel THEN "st_dg_create" ELSE "st_checks"
            /\ ctx' = [NoCtx EXCEPT !.op = "tarstall_startup",
                                    !.refresh = (disk = Sentinel)]
            /\ ret' = NoResult
    /\ UNCHANGED <<disk, fsvars, engine, staging, crashes, peer, temp2, backup, ops, hist>>

\* Lines 572-573: on the sentinel, the database file is created anew and
\* the default manifest written (create_db).
StartupDowngradeCreate ==
    /\ pc = "st_dg_create"
    /\ db' = get_default_db
    /\ write_db(get_default_db)
    /\ pc' = "st_dg_reload"
    /\ UNCHANGED <<ctx, ret, fsvars, envvars, crashes, peer, temp2, backup, ops, hist>>

\* Lines 575-576: config.db = config.get_db(); config.write_db().
StartupDowngradeReload ==
    /\ pc = "st_dg_reload"
    /\ db' = disk
    /\ write_db(disk)
    /\ pc' = "st_dg_rmtree"
    /\ UNCHANGED <<ctx, ret, fsvars, envvars, crashes, peer, temp2, backup, ops, hist>>

\* Faulty variant: the managed tree is left as it is.
StartupDowngradeKeep ==
    /\ pc = "st_dg_rmtree"
    /\ pc' = "st_checks"
    /\ UNCHANGED <<ctx, ret, dbvars, fsvars, envvars, crashes, peer, temp2, backup, ops, hist>>

\* Lines 578-582: rmtree(~/.tarstall/bin) and mkdir of it.
StartupDowngradeWipe ==
    /\ pc = "st_dg_rmtree"
    /\ bin' = NoDirs
    /\ pc' = "st_checks"
    /\ UNCHANGED <<ctx, ret, dbvars, bashrc, fishrc, apps, temp, envvars,
                   crashes, peer, temp2, backup, ops, hist>>

\* tarstall_startup returns a status with which the front end ends.
StartupAbort(status) ==
    /\ pc' = "idle"
    /\ ctx' = NoCtx
    /\ ret' = Result("tarstall_startup", NoName, status)

\* Lines 1564-1565.
get_file_version(d) == d.version.file_version

\* Line 597: the test of the migration loop.
MigrationPending(d) == FileVersion > get_file_version(d)

\* Lines 584-597: first-time setup if asked for, the installed check, the
\* broken-database check (with force_fix the startup goes on and
\* get_file_version fails on the empty manifest) and the first test of the
\* migration loop.
StartupChecks(start_fts, force_fix) ==
    /\ pc = "st_checks"
    /\ IF start_fts
       THEN /\ pc' = "fts_check"
            /\ UNCHANGED <<ctx, ret, db, hist>>
       ELSE IF ~EngineInstalled(engine)
       THEN /\ StartupAbort("Not installed")
            /\ UNCHANGED <<db, hist>>
       ELSE IF db = NotFound
       THEN IF force_fix
            THEN Raise("KeyError")
            ELSE /\ StartupAbort("DB Broken")
                 /\ UNCHANGED <<db, hist>>
       ELSE /\ pc' = IF MigrationPending(db) THEN "st_mg_step" ELSE "st_final"
            /\ UNCHANGED <<ctx, ret, db, hist>>
    /\ UNCHANGED <<disk, fsvars, envvars, crashes, peer, temp2, backup, ops>>

(***************************************************************************)
(* The migration chain of tarstall_startup (lines 596-634).  A record or   *)
(* an options mapping is a function on its keys, so that a step can add    *)
(* and drop keys.                                                          *)
(***************************************************************************)
OldestVersion == 11

SetKey(f, k, v) == [x \in DOMAIN f \cup {k} |-> IF x = k THEN v ELSE f[x]]

DelKey(f, k) == [x \in DOMAIN f \ {k} |-> f[x]]

MapPrograms(d, F(_)) ==
    [d EXCEPT !.programs = [n \in DOMAIN d.programs |-> F(d.programs[n])]]

Step11(r) == SetKey(r, "update_url", "None")

Step12(r) == SetKey(SetKey(r, "has_path", FALSE), "binlinks", {})

Step15(r) ==
    DelKey(SetKey(r, "install_type",
                  IF r["git_installed"] THEN "git" ELSE "default"),
           "git_installed")

\* Lines 600-630: the step that leads from file version v to v + 1.
MigrationStep(v, d) ==
    CASE v = 11 -> MapPrograms(d, Step11)
      [] v = 12 -> MapPrograms(d, Step12)
      [] v = 13 -> [d EXCEPT !.options = SetKey(@, "UpdateURLPrograms", FALSE)]
      [] v = 14 -> [d EXCEPT !.options = SetKey(@, "PressEnterKey", TRUE)]
      [] v = 15 -> MapPrograms(d, Step15)
      [] v = 16 -> [d EXCEPT !.options = SetKey(@, "WarnMissingDeps", TRUE)]
      [] OTHER -> d

\* Line 632: config.db["version"]["file_version"] += 1
BumpVersion(d) == [d EXCEPT !.version.file_version = @ + 1]

\* Lines 600-630: the records and options are changed in memory.
StartupMigrateStep ==
    /\ pc = "st_mg_step"
    /\ db' = MigrationStep(get_file_version(db), db)
    /\ pc' = "st_mg_write"
    /\ UNCHANGED <<ctx, ret, disk, fsvars, envvars, crashes, peer, temp2, backup, ops, hist>>

\* Faulty variant: the counter advances by two.
MigrateWriteTwice(d) == BumpVersion(BumpVersion(d))

\* Faulty variant: the counter does not advance.
MigrateWriteSame(d) == d

\* Lines 632-634: the counter advances (and the manifest is persisted).
MigrateWrite(d) == BumpVersion(d)

StartupMigrateWrite ==
    /\ pc = "st_mg_write"
    /\ db' = MigrateWrite(db)
    /\ write_db(db')
    /\ pc' = IF MigrationPending(db') THEN "st_mg_step" ELSE "st_final"
    /\ UNCHANGED <<ctx, ret, fsvars, envvars, crashes, peer, temp2, backup, ops, hist>>

\* Lines 641-647: the root check and the final status.
RootCheck == \E status \in {"Good", "Root", "Missing Deps"} : Return(status)

\* Lines 636-647: the old-version check, auto-update and the root check.
StartupFinal ==
    /\ pc = "st_final"
    /\ IF db.version.prog_internal_version = 1
       THEN Return("Old")
       ELSE IF db.options["AutoInstall"]
       THEN /\ pc' = "up_check"
            /\ ctx' = [ctx EXCEPT !.force = FALSE]
            /\ UNCHANGED ret
       ELSE RootCheck
    /\ UNCHANGED <<dbvars, fsvars, envvars, crashes, peer, temp2, backup, ops, hist>>

\* Lines 641-647, after the auto-update.
StartupReturn ==
    /\ pc = "st_root"
    /\ RootCheck
    /\ UNCHANGED <<dbvars, fsvars, envvars, crashes, peer, temp2, backup, ops, hist>>

(***************************************************************************)
(* Files of the launcher directory.                                        *)
(***************************************************************************)
RemoveFile(a, d) == [x \in DOMAIN a \ {d} |-> a[x]]

(***************************************************************************)
(* first_time_setup (lines 1201-1272), entered from tarstall_startup.      *)
(***************************************************************************)
\* Lines 1212-1213.
FtsCheck ==
    /\ pc = "fts_check"
    /\ IF EngineInstalled(engine)
       THEN Return("Already installed")
       ELSE /\ pc' = "fts_wipe"
            /\ UNCHANGED <<ctx, ret>>
    /\ UNCHANGED <<dbvars, fsvars, envvars, crashes, peer, temp2, backup, ops, hist>>

\* Lines 1216-1220: ~/.tarstall exists, so it is removed with all it holds
\* and made anew.  rmtree removes the entries in the order the directory
\* lists them: the database file goes before or after the rest.
FtsWipe ==
    /\ pc = "fts_wipe"
    /\ \E database_first \in BOOLEAN :
          IF database_first
          THEN /\ disk' = NotFound
               /\ ctx' = [ctx EXCEPT !.todo = {"files"}]
               /\ UNCHANGED <<bin, bashrc, fishrc, engine>>
          ELSE /\ bin' = NoDirs
               /\ bashrc' = <<>>
               /\ fishrc' = <<>>
               /\ engine' = NoEngine
               /\ ctx' = [ctx EXCEPT !.todo = {"database"}]
               /\ UNCHANGED disk
    /\ pc' = "fts_wipe_rest"
    /\ UNCHANGED <<ret, db, apps, temp, lock, staging, crashes, peer, temp2, backup, ops, hist>>

FtsWipeRest ==
    /\ pc = "fts_wipe_rest"
    /\ bin' = NoDirs
    /\ bashrc' = <<>>
    /\ fishrc' = <<>>
    /\ engine' = NoEngine
    /\ disk' = NotFound
    /\ ctx' = [ctx EXCEPT !.todo = {}]
    /\ pc' = "fts_temp"
    /\ UNCHANGED <<ret, db, apps, temp, lock, staging, crashes, peer, temp2, backup, ops, hist>>

\* Lines 1221-1225: /tmp/tarstall-temp is made (and stays).
FtsTemp ==
    /\ pc = "fts_temp"
    /\ temp' = TRUE
    /\ pc' = "fts_db"
    /\ UNCHANGED <<ctx, ret, dbvars, bin, bashrc, fishrc, apps, envvars,
                   crashes, peer, temp2, backup, ops, hist>>

\* Lines 1227-1235: bin, the database (create_db) and the profile files.
FtsDb ==
    /\ pc = "fts_db"
    /\ db' = get_default_db
    /\ write_db(get_default_db)
    /\ pc' = "fts_copy"
    /\ UNCHANGED <<ctx, ret, fsvars, envvars, crashes, peer, temp2, backup, ops, hist>>

\* Lines 1238-1248: the .py files are copied; a file that went missing ends
\* the setup with "Bad copy".
FtsCopy ==
    /\ pc = "fts_copy"
    /\ \E copied \in BOOLEAN :
          IF copied
          THEN /\ engine' = PutEngine(engine, "prog_manage.py", "old")
               /\ pc' = "fts_execs"
               /\ UNCHANGED <<ctx, ret>>
          ELSE /\ Return("Bad copy")
               /\ UNCHANGED engine
    /\ UNCHANGED <<dbvars, fsvars, lock, staging, crashes, peer, temp2, backup, ops, hist>>

\* Line 1260: copytree of tarstall_execs.
FtsExecs ==
    /\ pc = "fts_execs"
    /\ engine' = PutEngine(engine, "tarstall_execs", "old")
    /\ pc' = "fts_bash"
    /\ UNCHANGED <<ctx, ret, dbvars, fsvars, lock, staging, crashes, peer, temp2, backup, ops,
                   hist>>

\* Lines 1265-1266.
FtsBash ==
    /\ pc = "fts_bash"
    /\ bashrc' = add_line(EngineLine, bashrc)
    /\ pc' = "fts_fish"
    /\ UNCHANGED <<ctx, ret, dbvars, bin, fishrc, apps, temp, envvars,
                   crashes, peer, temp2, backup, ops, hist>>

\* Line 1267.
FtsFish ==
    /\ pc = "fts_fish"
    /\ fishrc' = add_line(EngineLine, fishrc)
    /\ pc' = "fts_unlock"
    /\ UNCHANGED <<ctx, ret, dbvars, bin, bashrc, apps, temp, envvars,
                   crashes, peer, temp2, backup, ops, hist>>

\* Lines 1250-1254, 1270-1272: the lock is released and the status returned.
FtsUnlock ==
    /\ pc = "fts_unlock"
    /\ lock' = FALSE
    /\ \E status \in {"Success", "Unsupported shell"} : Return(status)
    /\ UNCHANGED <<dbvars, fsvars, engine, staging, crashes, peer, temp2, backup, ops, hist>>

(***************************************************************************)
(* update (lines 1052-1146), called by tarstall_startup (auto-update) and  *)
(* by change_branch.                                                       *)
(***************************************************************************)
\* The versions the version file on GitHub may name.
OnlineVersions == {ProgVersion - 1, ProgVersion, ProgVersion + 1}

NoInternet == -2

\* update returns val to the function that called it: tarstall_startup goes
\* on to the root check, change_branch to "Success" (beta) or to the
\* deletion of the .desktop files (master with reset).
UpdateReturn(val) ==
    IF ctx.op = "tarstall_startup"
    THEN /\ pc' = "st_root"
         /\ ctx' = [ctx EXCEPT !.todo = {}]
         /\ UNCHANGED ret
    ELSE IF ctx.op = "change_branch" /\ ctx.branch = "master"
    THEN /\ pc' = "cb_desktops"
         /\ ctx' = [ctx EXCEPT !.todo =
                       UNION {db.programs[p].desktops : p \in Installed(db)}]
         /\ UNCHANGED ret
    ELSE IF ctx.op = "change_branch"
    THEN Return("Success")
    ELSE Return(val)

\* update passes vals to generic.progress; change_branch passes 70 as soon
\* as its forced update has returned (line 500).
UpdateBar(vals) ==
    hist' = progress(hist, vals \o (IF pc' = "cb_desktops" THEN <<Whole(70)>>
                                    ELSE <<>>))

\* update (lines 1052-1068) called by the user: ordinary, or forced as
\* repair_tarstall does (line 163).
update(force_update) ==
    /\ Call("update", NoName, NoName,
            IF force_update THEN "none" ELSE "updating")
    /\ pc' = "up_check"
    /\ ctx' = [NoCtx EXCEPT !.op = "update", !.force = force_update]
    /\ ret' = NoResult
    /\ UNCHANGED <<dbvars, fsvars, envvars, crashes, peer, temp2, backup>>

\* Lines 1069-1086: the checks before anything is fetched; an ordinary
\* update reads the version that is online (a forced one never does).
UpdateCheck ==
    /\ pc = "up_check"
    /\ \E can_update \in BOOLEAN,
          git \in (IF ctx.op = "change_branch" THEN {ctx.git} ELSE BOOLEAN),
          final_version \in OnlineVersions \cup {NoInternet} :
          IF ~can_update /\ ~ctx.force
          THEN UpdateReturn("No requests") /\ UpdateBar(<<>>)
          ELSE IF ~git
          THEN UpdateReturn("No git") /\ UpdateBar(<<>>)
          ELSE IF ~ctx.force /\ final_version = NoInternet
          THEN /\ UpdateReturn("No internet")
               /\ UpdateBar(<<Whole(5), Whole(100)>>)
          ELSE /\ pc' = "up_compare"
               /\ ctx' = [ctx EXCEPT !.online = IF ctx.force THEN 0
                                                ELSE final_version]
               /\ UpdateBar(<<Whole(5), Whole(10)>>)
               /\ UNCHANGED ret
    /\ UNCHANGED <<dbvars, fsvars, envvars, crashes, peer, temp2, backup, ops>>

\* Faulty variant: an equal version online is taken for an update.
ShouldUpdateOnEqual(force_update, final_version) ==
    force_update \/ final_version >= ProgVersion

\* Line 1088: whether the update is performed.
ShouldUpdate(force_update, final_version) ==
    force_update \/ final_version > ProgVersion

\* Lines 1088, 1141-1146: the comparison of the version online with the
\* installed one.
UpdateCompare ==
    /\ pc = "up_compare"
    /\ IF ShouldUpdate(ctx.force, ctx.online)
       THEN /\ pc' = "up_clone"
            /\ UNCHANGED <<ctx, ret, hist>>
       ELSE /\ IF ctx.online < ProgVersion
               THEN UpdateReturn("Newer version")
               ELSE UpdateReturn("No update")
            /\ UpdateBar(<<Whole(100)>>)
    /\ UNCHANGED <<dbvars, fsvars, envvars, crashes, peer, temp2, backup, ops>>

\* Lines 1089-1100: /tmp/tarstall-update is made anew and the repository
\* cloned into it; a failed clone ends the update with "Failed".
UpdateClone ==
    /\ pc = "up_clone"
    /\ staging' = TRUE
    /\ \E err \in BOOLEAN :
          IF err
          THEN UpdateReturn("Failed") /\ UpdateBar(<<Whole(100)>>)
          ELSE /\ pc' = "up_list"
               /\ UpdateBar(<<Whole(55)>>)
               /\ UNCHANGED <<ctx, ret>>
    /\ UNCHANGED <<dbvars, fsvars, lock, engine, crashes, peer, temp2, backup, ops>>

\* Faulty variant: nothing under ~/.tarstall is kept.
to_keep_nothing == {}

\* Line 1105: what the update leaves in place under ~/.tarstall.
to_keep == {"bin", "database", ".bashrc", ".fishrc"}

\* Line 1104: os.listdir() of ~/.tarstall: the engine's files, the managed
\* tree, the manifest and the two profile files.
HomeListing(e) == DOMAIN e \cup {"bin", "database", ".bashrc", ".fishrc"}

\* Lines 1103-1107: the files to remove are listed; the progress step
\* divides by the number of those that are not kept.
UpdateList ==
    /\ pc = "up_list"
    /\ IF Cardinality(HomeListing(engine)) = Cardinality(to_keep)
       THEN /\ Raise("ZeroDivisionError")
       ELSE /\ pc' = "up_remove"
            /\ ctx' = [ctx EXCEPT
                         !.todo = HomeListing(engine) \ to_keep,
                         !.progress = Whole(55),
                         !.adder = Frac(15, Cardinality(HomeListing(engine))
                                               - Cardinality(to_keep))]
            /\ UNCHANGED <<ret, db, hist>>
    /\ UNCHANGED <<disk, fsvars, envvars, crashes, peer, temp2, backup, ops>>

\* Lines 1108-1115: one listed file or directory is removed.
UpdateRemove ==
    /\ pc = "up_remove"
    /\ \E f \in ctx.todo :
          /\ engine' = DelEngine(engine, f)
          /\ bin' = IF f = "bin" THEN NoDirs ELSE bin
          /\ disk' = IF f = "database" THEN NotFound ELSE disk
          /\ bashrc' = IF f = ".bashrc" THEN <<>> ELSE bashrc
          /\ fishrc' = IF f = ".fishrc" THEN <<>> ELSE fishrc
          /\ ctx' = IF ctx.todo = {f}
                    THEN [ctx EXCEPT
                             !.todo = EngineFiles,
                             !.progress = Whole(70),
                             !.adder = Frac(25, Cardinality(EngineFiles))]
                    ELSE [ctx EXCEPT
                             !.todo = ctx.todo \ {f},
                             !.progress = Plus(ctx.progress, ctx.adder)]
          /\ pc' = IF ctx.todo = {f} THEN "up_move" ELSE "up_remove"
          /\ UpdateBar(<<Plus(ctx.progress, ctx.adder)>>
                         \o (IF ctx.todo = {f} THEN <<Whole(70)>> ELSE <<>>))
    /\ UNCHANGED <<ret, db, apps, temp, lock, staging, crashes, peer, temp2, backup, ops>>

\* Lines 1117-1128: one new file is moved in.
UpdateMove ==
    /\ pc = "up_move"
    /\ \E f \in ctx.todo :
          /\ engine' = PutEngine(engine, f, "new")
          /\ ctx' = [ctx EXCEPT !.todo = @ \ {f},
                                !.progress = Plus(ctx.progress, ctx.adder)]
          /\ pc' = IF ctx.todo = {f} THEN "up_clean" ELSE "up_move"
          /\ UpdateBar(<<Plus(ctx.progress, ctx.adder)>>
                         \o (IF ctx.todo = {f} THEN <<Whole(95)>> ELSE <<>>))
    /\ UNCHANGED <<ret, dbvars, fsvars, lock, staging, crashes, peer, temp2, backup, ops>>

\* Lines 1130-1140: the staging directory is removed and, unless the update
\* was forced, the new version is recorded and persisted.
UpdateClean ==
    /\ pc = "up_clean"
    /\ staging' = FALSE
    /\ IF ctx.force
       THEN UNCHANGED dbvars
       ELSE /\ db' = [db EXCEPT !.version.prog_internal_version = ctx.online]
            /\ write_db(db')
    /\ UpdateReturn("Updated")
    /\ UpdateBar(<<Whole(100)>>)
    /\ UNCHANGED <<fsvars, lock, engine, crashes, peer, temp2, backup, ops>>

(***************************************************************************)
(* change_branch (lines 468-520).                                          *)
(***************************************************************************)
Branches == {"master", "beta", "dev"}

\* Lines 481-498, 517-520: reset is dropped without git, the branch is
\* written and persisted.
change_branch(branch, reset, git) ==
    /\ CallBar("change_branch", NoName, NoName, "none",
               (IF branch = "master" /\ ~git THEN <<Whole(50)>> ELSE <<>>)
                  \o (IF branch = "beta" THEN <<Whole(65)>>
                      ELSE IF branch # "master" THEN <<>>
                      ELSE IF git /\ reset THEN <<Whole(10)>>
                      ELSE <<Whole(10), Whole(100)>>))
    /\ HasPrograms(db)
    /\ LET r == IF branch = "master" /\ ~git THEN FALSE ELSE reset IN
       IF branch \notin {"master", "beta"}
       THEN /\ pc' = "ready"
            /\ ctx' = NoCtx
            /\ ret' = Result("change_branch", NoName, "Bad branch")
            /\ UNCHANGED dbvars
       ELSE /\ db' = [db EXCEPT !.version.branch = branch]
            /\ write_db(db')
            /\ IF branch = "beta" \/ r
               THEN /\ pc' = "up_check"
                    /\ ctx' = [NoCtx EXCEPT !.op = "change_branch",
                                  !.branch = branch, !.reset = r,
                                  !.git = git, !.force = (branch = "master")]
                    /\ ret' = NoResult
               ELSE /\ pc' = "ready"
                    /\ ctx' = NoCtx
                    /\ ret' = Result("change_branch", NoName, "Waiting")
    /\ UNCHANGED <<fsvars, envvars, crashes, peer, temp2, backup>>

\* Lines 502-509: the .desktop files of every program are removed.
ChangeBranchDesktops ==
    /\ pc = "cb_desktops"
    /\ IF ctx.todo = {}
       THEN /\ pc' = "cb_sentinel"
            /\ hist' = progress(hist, <<Whole(85)>>)
            /\ UNCHANGED <<ctx, apps>>
       ELSE \E d \in ctx.todo :
               /\ apps' = RemoveFile(apps, d)
               /\ ctx' = [ctx EXCEPT !.todo = @ \ {d}]
               /\ UNCHANGED <<pc, hist>>
    /\ UNCHANGED <<ret, dbvars, bin, bashrc, fishrc, temp, envvars, crashes, peer, temp2, backup,
                   ops>>

\* Faulty variant: the managed tree is wiped along with the sentinel write.
ChangeBranchSentinelWipe ==
    /\ pc = "cb_sentinel"
    /\ db' = Sentinel
    /\ write_db(Sentinel)
    /\ bin' = NoDirs
    /\ pc' = "cb_unlock"
    /\ hist' = progress(hist, <<Whole(100)>>)
    /\ UNCHANGED <<ctx, ret, bashrc, fishrc, apps, temp, envvars, crashes, peer, temp2, backup,
                   ops>>

\* Lines 512-513: the sentinel replaces the manifest and is persisted.
ChangeBranchSentinel ==
    /\ pc = "cb_sentinel"
    /\ db' = Sentinel
    /\ write_db(Sentinel)
    /\ pc' = "cb_unlock"
    /\ hist' = progress(hist, <<Whole(100)>>)
    /\ UNCHANGED <<ctx, ret, fsvars, envvars, crashes, peer, temp2, backup, ops>>

\* Lines 515-517: the lock is released and "Reset" returned; the manifest
\* in memory is the sentinel, and the front end ends.
ChangeBranchUnlock ==
    /\ pc = "cb_unlock"
    /\ lock' = FALSE
    /\ pc' = "idle"
    /\ ctx' = NoCtx
    /\ ret' = Result("change_branch", NoName, "Reset")
    /\ UNCHANGED <<dbvars, fsvars, engine, staging, crashes, peer, temp2, backup, ops, hist>>

(***************************************************************************)
(* erase (lines 1149-1198).  The source line it takes from the user's own  *)
(* shell file (lines 1160-1167) and tarstall.desktop (lines 1192-1195) are *)
(* outside the state of the model.                                         *)
(***************************************************************************)
\* The launcher files the manifest records.
RecordedDesktops(d) == UNION {d.programs[p].desktops : p \in Installed(d)}

\* Lines 1157-1158, 1171: the installed check; the loop over
\* config.db["programs"] fails on a manifest without programs.
erase ==
    /\ Call("erase", NoName, NoName, "none")
    /\ IF ~EngineInstalled(engine)
       THEN /\ pc' = "ready"
            /\ ctx' = NoCtx
            /\ ret' = Result("erase", NoName, "Not installed")
            /\ UNCHANGED db
       ELSE IF ~HasPrograms(db)
       THEN /\ pc' = "idle"
            /\ ctx' = NoCtx
            /\ ret' = Result("erase", NoName, "KeyError")
            /\ db' = disk
       ELSE /\ pc' = "er_desktops"
            /\ ctx' = [NoCtx EXCEPT !.op = "erase",
                                    !.todo = RecordedDesktops(db)]
            /\ ret' = NoResult
            /\ UNCHANGED db
    /\ UNCHANGED <<disk, fsvars, envvars, crashes, peer, temp2, backup>>

\* Lines 1171-1177: the .desktop files of every program are removed.
EraseDesktops ==
    /\ pc = "er_desktops"
    /\ IF ctx.todo = {}
       THEN /\ pc' = "er_wipe"
            /\ UNCHANGED <<ctx, apps>>
       ELSE \E d \in ctx.todo :
               /\ apps' = RemoveFile(apps, d)
               /\ ctx' = [ctx EXCEPT !.todo = @ \ {d}]
               /\ UNCHANGED pc
    /\ UNCHANGED <<ret, dbvars, bin, bashrc, fishrc, temp, envvars, crashes,
                   peer, temp2, backup, ops, hist>>

\* Line 1180: rmtree of ~/.tarstall, entry by entry: the database file goes
\* before or after the rest.
EraseWipe ==
    /\ pc = "er_wipe"
    /\ \E database_first \in BOOLEAN :
          IF database_first
          THEN /\ disk' = NotFound
               /\ UNCHANGED <<bin, bashrc, fishrc, engine>>
          ELSE /\ bin' = NoDirs
               /\ bashrc' = <<>>
               /\ fishrc' = <<>>
               /\ engine' = NoEngine
               /\ UNCHANGED disk
    /\ pc' = "er_wipe_rest"
    /\ UNCHANGED <<ctx, ret, db, apps, temp, lock, staging, crashes, peer, temp2, backup,
                   ops, hist>>

EraseWipeRest ==
    /\ pc = "er_wipe_rest"
    /\ bin' = NoDirs
    /\ bashrc' = <<>>
    /\ fishrc' = <<>>
    /\ engine' = NoEngine
    /\ disk' = NotFound
    /\ pc' = "er_temp"
    /\ UNCHANGED <<ctx, ret, db, apps, temp, lock, staging, crashes, peer, temp2, backup,
                   ops, hist>>

\* Lines 1182-1190: the staging areas are removed.
EraseTemp ==
    /\ pc = "er_temp"
    /\ temp' = FALSE
    /\ pc' = "er_unlock"
    /\ UNCHANGED <<ctx, ret, dbvars, bin, bashrc, fishrc, apps, envvars,
                   crashes, peer, temp2, backup, ops, hist>>

\* Lines 1196-1198: the lock is released and "Erased" returned; the front
\* end ends.
EraseUnlock ==
    /\ pc = "er_unlock"
    /\ lock' = FALSE
    /\ pc' = "idle"
    /\ ctx' = NoCtx
    /\ ret' = Result("erase", NoName, "Erased")
    /\ db' = disk
    /\ UNCHANGED <<disk, fsvars, engine, staging, crashes, peer, temp2, backup, ops, hist>>

(***************************************************************************)
(* pathify (lines 1028-1049).                                              *)
(***************************************************************************)
SetField(d, p, k, v) == [d EXCEPT !.programs[p][k] = v]

pathify(p) ==
    /\ p \in Installed(db)
    /\ Call("pathify", p, NoName,
            IF ~db.programs[p].has_path THEN "pathifying"
            ELSE IF hist.rt = "pathified" /\ hist.prog = p THEN "pathified twice"
            ELSE "none")
    /\ IF db.programs[p].has_path
       THEN /\ pc' = "ready"
            /\ ctx' = NoCtx
            /\ ret' = Result("pathify", p, "Already there")
            /\ UNCHANGED bashrc
       ELSE /\ bashrc' = add_line(PathLine(p), bashrc)
            /\ pc' = "pa_fish"
            /\ ctx' = [NoCtx EXCEPT !.op = "pathify", !.prog = p]
            /\ ret' = NoResult
    /\ UNCHANGED <<dbvars, bin, fishrc, apps, temp, envvars, crashes, peer, temp2, backup>>

\* Faulty variant: the manifest is persisted before the line is written to
\* ~/.tarstall/.fishrc.
PathifyFishLate ==
    /\ pc = "pa_fish"
    /\ db' = SetField(db, ctx.prog, "has_path", TRUE)
    /\ write_db(db')
    /\ pc' = "pa_record"
    /\ UNCHANGED <<ctx, ret, bin, bashrc, fishrc, apps, temp, envvars,
                   crashes, peer, temp2, backup, ops, hist>>

\* Lines 1044-1045: the PATH line is added to ~/.tarstall/.fishrc.
PathifyFish ==
    /\ pc = "pa_fish"
    /\ fishrc' = add_line(PathLine(ctx.prog), fishrc)
    /\ pc' = "pa_record"
    /\ UNCHANGED <<ctx, ret, dbvars, bin, bashrc, apps, temp, envvars,
                   crashes, peer, temp2, backup, ops, hist>>

PathifyRecord ==
    /\ pc = "pa_record"
    /\ db' = SetField(db, ctx.prog, "has_path", TRUE)
    /\ write_db(db')
    /\ Return("Complete")
    /\ hist' = [hist EXCEPT !.rt = IF @ = "pathifying" THEN "pathified" ELSE @]
    /\ UNCHANGED <<fsvars, envvars, crashes, peer, temp2, backup, ops>>

(***************************************************************************)
(* uninstall (lines 1479-1513), called by the caller or by a reinstall.    *)
(***************************************************************************)
uninstall(p) ==
    /\ Call("uninstall", p, NoName,
            IF hist.rt = "installed" /\ hist.prog = p THEN "uninstalling"
            ELSE "none")
    /\ HasPrograms(db)
    /\ IF p \notin Installed(db)
       THEN /\ pc' = "ready"
            /\ ctx' = NoCtx
            /\ ret' = Result("uninstall", p, "Not installed")
       ELSE /\ pc' = "un_rmtree"
            /\ ctx' = [NoCtx EXCEPT !.op = "uninstall", !.prog = p]
            /\ ret' = NoResult
    /\ UNCHANGED <<dbvars, fsvars, envvars, crashes, peer, temp2, backup>>

\* Faulty variant: the directory is not removed before the later steps.
UninstallRmtreeSkipped ==
    /\ pc = "un_rmtree"
    /\ pc' = "un_profile"
    /\ UNCHANGED <<ctx, ret, dbvars, fsvars, envvars, crashes, peer, temp2, backup, ops, hist>>

\* Line 1492: rmtree of the program's directory.
UninstallRmtree ==
    /\ pc = "un_rmtree"
    /\ IF ctx.prog \notin DOMAIN bin
       THEN /\ Raise("FileNotFoundError")
            /\ UNCHANGED <<disk, fsvars>>
       ELSE /\ bin' = rmtree(bin, ctx.prog)
            /\ pc' = "un_profile"
            /\ hist' = progress(hist, <<Whole(40)>>)
            /\ UNCHANGED <<ctx, ret, dbvars, bashrc, fishrc, apps, temp>>
    /\ UNCHANGED <<envvars, crashes, peer, temp2, backup, ops>>

\* Line 1495: the tagged lines leave ~/.tarstall/.bashrc.
UninstallProfile ==
    /\ pc = "un_profile"
    /\ bashrc' = remove_line(ctx.prog, bashrc)
    /\ ctx' = [ctx EXCEPT !.todo = db.programs[ctx.prog].desktops]
    /\ pc' = IF db.programs[ctx.prog].desktops = {} THEN "un_record"
             ELSE "un_desktops"
    /\ hist' = progress(hist, <<Whole(50)>>)
    /\ UNCHANGED <<ret, dbvars, bin, fishrc, apps, temp, envvars, crashes, peer, temp2, backup,
                   ops>>

\* Lines 1498-1507: the .desktop files of the program are removed.
UninstallDesktop ==
    /\ pc = "un_desktops"
    /\ \E d \in ctx.todo :
          /\ apps' = RemoveFile(apps, d)
          /\ ctx' = [ctx EXCEPT !.todo = @ \ {d}]
          /\ pc' = IF ctx.todo = {d} THEN "un_record" ELSE "un_desktops"
    /\ LET len == Cardinality(db.programs[ctx.prog].desktops)
           adder == 30 \div len
       IN  hist' = progress(hist, <<Whole(50 + adder * (len - Cardinality(ctx'.todo)))>>)
    /\ UNCHANGED <<ret, dbvars, bin, bashrc, fishrc, temp, envvars, crashes, peer, temp2, backup,
                   ops>>

\* Lines 1510-1513: the record is deleted and the manifest persisted.
UninstallRecord ==
    /\ pc = "un_record"
    /\ db' = DelProgram(db, ctx.prog)
    /\ write_db(db')
    /\ IF ctx.op = "uninstall"
       THEN /\ Return("Success")
            /\ hist' = progress([hist EXCEPT
                                    !.rt = IF @ = "uninstalling" THEN "done"
                                           ELSE @],
                                 <<Whole(80), Whole(100)>>)
       ELSE /\ pc' = CASE ctx.op = "pre_gitinstall" -> "gi_begin"
                       [] ctx.op = "pre_dirinstall" -> "di_begin"
                       [] OTHER -> "in_begin"
            /\ hist' = progress(hist, <<Whole(80), Whole(100)>>)
            /\ UNCHANGED <<ctx, ret>>
    /\ UNCHANGED <<fsvars, envvars, crashes, peer, temp2, backup, ops>>

(***************************************************************************)
(* pre_install, install and finish_install (lines 650-677, 1343-1419,      *)
(* 865-890).  An archive is a path that exists or not, the program name    *)
(* config.name derives from it, its extension, and the layout of the tree  *)
(* it extracts to: "named" (a directory named like the program), "single"  *)
(* (one other directory and nothing else) or "flat".                       *)
(***************************************************************************)
Archive(n, e, l) == [exists |-> TRUE, name |-> n, ext |-> e, layout |-> l]

Archives ==
    {Archive(n, ".tar.gz", l) : n \in Names, l \in {"named", "flat"}}
      \cup {Archive(NameA, ".txt", "flat"),
            Archive(UnsafeName, ".tar.gz", "flat"),
            NoArch}

Overwrites == {"None", "False", "True"}

UnsafeChars == {"#", " "}

\* config.char_check: the name holds a character unsafe for a shell.
char_check(n) == \E i \in 1..Len(n) : n[i] \in UnsafeChars

SupportedExt == {".tar.gz", ".tar.xz", ".zip", ".7z", ".rar"}

SingleDir == <<"d">>

\* The top level of the extracted tree: its directories and its files.  A
\* "named" archive holds a directory named like the program, a "single"
\* one a directory of another name and nothing else, a "flat" one a file.
ExtractedDirs(a) ==
    IF a.layout = "named" THEN {a.name}
    ELSE IF a.layout = "single" THEN {SingleDir}
    ELSE {}

ExtractedFiles(a) == IF a.layout = "flat" THEN {PayloadFile} ELSE {}

\* The staging directory moved as it is, whatever it holds.
SourceBaseWhole(a, extracted) == TempBase

\* Lines 1385-1397: the directory of the staging area that is moved.
SourceBase(a, extracted) ==
    LET dirs == ExtractedDirs(a)
        listing == dirs \cup ExtractedFiles(a)
    IN  IF ~extracted THEN TempBase
        ELSE IF a.name \in dirs THEN a.name
        ELSE IF Cardinality(listing) = 1 /\ listing = dirs
        THEN CHOOSE d \in dirs : TRUE
        ELSE TempBase

\* What the moved directory holds.
SourceContent(a, extracted) ==
    IF ~extracted THEN {}
    ELSE IF SourceBase(a, extracted) = TempBase
    THEN ExtractedDirs(a) \cup ExtractedFiles(a)
    ELSE {PayloadFile}

\* What a call of an install variant is to the history: an install of a new
\* name ("installing", for the round trip), or of a name the manifest holds
\* with overwrite unset ("asking"), true ("overwriting") or false
\* ("replacing").
InstallTrip(valid, n, ow) ==
    IF ~valid \/ ~HasPrograms(db) THEN "none"
    ELSE IF n \notin Installed(db)
    THEN (IF ow = "None" THEN "installing" ELSE "none")
    ELSE CASE ow = "None" -> "asking"
           [] ow = "True" -> "overwriting"
           [] OTHER -> "replacing"

\* Faulty variant: the question whether to overwrite is not asked, and an
\* unset overwrite is taken for false.
pre_installNoAsk(a, ow) ==
    /\ Call("pre_install", a.name, NoName, InstallTrip(a.exists, a.name, ow))
    /\ HasPrograms(db)
    /\ IF ~a.exists
       THEN /\ pc' = "ready"
            /\ ctx' = NoCtx
            /\ ret' = Result("pre_install", a.name, "Bad file")
       ELSE /\ pc' = IF a.name \in Installed(db) /\ ow # "True"
                     THEN "un_rmtree" ELSE "in_begin"
            /\ ctx' = [NoCtx EXCEPT !.op = "pre_install", !.prog = a.name,
                          !.arch = a,
                          !.ow = IF a.name \in Installed(db) /\ ow = "True"
                                 THEN ow ELSE "False"]
            /\ ret' = NoResult
    /\ UNCHANGED <<dbvars, fsvars, envvars, crashes, peer, temp2, backup>>

pre_install(a, ow) ==
    /\ Call("pre_install", a.name, NoName, InstallTrip(a.exists, a.name, ow))
    /\ HasPrograms(db)
    /\ IF ~a.exists
       THEN /\ pc' = "ready"
            /\ ctx' = NoCtx
            /\ ret' = Result("pre_install", a.name, "Bad file")
       ELSE IF a.name \in Installed(db) /\ ow = "None"
       THEN /\ pc' = "ready"
            /\ ctx' = NoCtx
            /\ ret' = Result("pre_install", a.name, "Application exists")
       ELSE /\ pc' = IF a.name \in Installed(db) /\ ow = "False"
                     THEN "un_rmtree" ELSE "in_begin"
            /\ ctx' = [NoCtx EXCEPT !.op = "pre_install", !.prog = a.name,
                          !.arch = a,
                          !.ow = IF a.name \in Installed(db) THEN ow
                                 ELSE "False"]
            /\ ret' = NoResult
    /\ UNCHANGED <<dbvars, fsvars, envvars, crashes, peer, temp2, backup>>

\* install returns val to the function that called pre_install: wget_program
\* (line 290) keeps it as inst_status and goes on.
InstallReturn(val) ==
    IF ctx.op = "update_program"
    THEN /\ pc' = "wg_clean"
         /\ ctx' = [ctx EXCEPT !.status = val]
         /\ UNCHANGED ret
    ELSE Return(val)

\* Lines 1356-1368: the checks; the staging directory is made anew.
InstallBegin ==
    /\ pc = "in_begin"
    /\ \E rsync \in BOOLEAN :
          IF ctx.ow = "True" /\ ~rsync
          THEN /\ InstallReturn("No rsync")
               /\ UNCHANGED temp
          ELSE IF char_check(ctx.prog)
          THEN /\ InstallReturn("Bad name")
               /\ UNCHANGED temp
          ELSE /\ temp' = TRUE
               /\ pc' = "in_extract"
               /\ UNCHANGED <<ctx, ret>>
    /\ hist' = IF pc' = "in_extract" THEN progress(hist, <<Whole(10)>>)
               ELSE hist
    /\ UNCHANGED <<dbvars, bin, bashrc, fishrc, apps, envvars, crashes, peer, temp2, backup,
                   ops>>

\* Lines 1370-1382: create_command and the extraction, whose exit status
\* os.system drops.
InstallExtract ==
    /\ pc = "in_extract"
    /\ \E tool \in BOOLEAN, ok \in BOOLEAN :
          IF ctx.arch.ext \notin SupportedExt
          THEN InstallReturn("Bad Filetype")
          ELSE IF ~tool
          THEN InstallReturn("No tar")
          ELSE /\ ctx' = [ctx EXCEPT !.extracted = ok]
               /\ pc' = "in_move"
               /\ UNCHANGED ret
    /\ hist' = IF pc' # "in_move" THEN progress(hist, <<Whole(15)>>)
               ELSE progress(IF ctx'.extracted THEN hist
                             ELSE [hist EXCEPT
                                      !.ran = Append(@, "extract failed")],
                             <<Whole(15), Whole(50)>>)
    /\ UNCHANGED <<dbvars, fsvars, envvars, crashes, peer, temp2, backup, ops>>

\* rsync -a <source>/ <dest>: the content of the source is merged over what
\* the destination holds.
Rsync(b, dst, content) ==
    PutDir(b, dst, (IF dst \in DOMAIN b THEN b[dst] ELSE {}) \cup content)

\* Lines 1383-1407: the extracted tree goes to the managed tree: with
\* overwrite by rsync (line 1404, its exit status dropped), else by move.
InstallMove ==
    /\ pc = "in_move"
    /\ LET base == SourceBase(ctx.arch, ctx.extracted)
           content == SourceContent(ctx.arch, ctx.extracted)
       IN  IF ctx.ow = "True"
           THEN /\ bin' = Rsync(bin, ctx.prog, content)
                /\ pc' = "in_clean"
                /\ hist' = progress(hist, <<Whole(80)>>)
                /\ UNCHANGED <<ctx, ret, dbvars, bashrc, fishrc, apps, temp>>
           ELSE IF MoveFails(bin, ctx.prog, base)
           THEN /\ Raise("shutil.Error")
                /\ UNCHANGED <<disk, fsvars>>
           ELSE /\ bin' = MoveInto(bin, ctx.prog, base, content)
                /\ temp' = (base # TempBase)
                /\ pc' = "in_clean"
                /\ hist' = progress(hist, <<Whole(80)>>)
                /\ UNCHANGED <<ctx, ret, dbvars, bashrc, fishrc, apps>>
    /\ UNCHANGED <<envvars, crashes, peer, temp2, backup, ops>>

\* Lines 1410-1419: the staging directory is removed.
InstallClean ==
    /\ pc = "in_clean"
    /\ temp' = FALSE
    /\ IF ctx.ow = "True"
       THEN InstallReturn("Installed")
       ELSE /\ pc' = "fin_record"
            /\ UNCHANGED <<ctx, ret>>
    /\ hist' = IF ctx.ow = "True" THEN progress(hist, <<Whole(100)>>) ELSE hist
    /\ UNCHANGED <<dbvars, bin, bashrc, fishrc, apps, envvars, crashes, peer, temp2, backup,
                   ops>>

\* finish_install: the record is added and the manifest persisted.
finish_install(d, n, install_type) == PutProgram(d, n, NewRecord(install_type))

FinishInstall ==
    /\ pc = "fin_record"
    /\ temp' = FALSE
    /\ db' = finish_install(db, ctx.prog,
                            IF ctx.single THEN "single"
                            ELSE IF ctx.op = "pre_gitinstall" THEN "git"
                            ELSE "default")
    /\ write_db(db')
    /\ Return("Installed")
    /\ hist' = progress([hist EXCEPT
                            !.rt = IF @ = "installing" THEN "installed" ELSE @],
                         <<Whole(90), Whole(95), Whole(100)>>)
    /\ UNCHANGED <<bin, bashrc, fishrc, apps, envvars, crashes, peer, temp2, backup, ops>>

(***************************************************************************)
(* rename (lines 810-862).  Each config.replace_in_file rewrites one file; *)
(* what the replaced text can match in a line follows from the line        *)
(* formats above.                                                          *)
(***************************************************************************)
\* "export PATH=$PATH:~/.tarstall/bin/" + program, in .bashrc.
BashPathReplace(l, p, q) ==
    IF l.kind = "path" THEN [l EXCEPT !.dir = ReplacePrefix(@, p, q)] ELSE l

\* "set PATH $PATH ~/.tarstall/bin/" + program + " # " + program, in .fishrc.
FishPathReplace(l, p, q) ==
    IF l.kind = "path" /\ l.dir = p /\ Prefix(p, l.tag)
    THEN [l EXCEPT !.dir = q, !.tag = ReplacePrefix(@, p, q)] ELSE l

\* "'cd " + full("~/.tarstall/bin/" + program), in .bashrc.
BashAliasReplace(l, p, q) ==
    IF l.kind = "alias" THEN [l EXCEPT !.dir = ReplacePrefix(@, p, q)] ELSE l

\* ";cd " + full("~/.tarstall/bin/" + program) + "/;./", in .fishrc.
FishAliasReplace(l, p, q) ==
    IF l.kind = "alias" /\ l.dir = p THEN [l EXCEPT !.dir = q] ELSE l

\* "./" + program.
FileReplace(l, p, q) ==
    IF l.kind = "alias" THEN [l EXCEPT !.file = ReplacePrefix(@, p, q)] ELSE l

\* "alias " + program and "function " + program.
AliasNameReplace(l, p, q) ==
    IF l.kind = "alias" THEN [l EXCEPT !.name = ReplacePrefix(@, p, q)] ELSE l

\* "# " + program.
TagReplace(l, p, q) == [l EXCEPT !.tag = ReplacePrefix(@, p, q)]

RenameKey(f, p, q) ==
    [x \in (DOMAIN f \ {p}) \cup {q} |-> IF x = q THEN f[p] ELSE f[x]]

\* Faulty variant: the collision check is missing.
RenameCollidesNever(d, q) == FALSE

\* Lines 820-823: the collision check comes before anything is changed.
RenameCollides(d, q) == q \in Installed(d)

rename(p, q) ==
    /\ Call("rename", p, q, "none")
    /\ p \in Installed(db)
    /\ IF RenameCollides(db, q)
       THEN /\ pc' = "ready"
            /\ ctx' = NoCtx
            /\ ret' = Result("rename", p, "None")
       ELSE /\ pc' = IF db.programs[p].desktops = {} THEN "rn_bash_path"
                     ELSE "rn_desktop"
            /\ ctx' = [NoCtx EXCEPT !.op = "rename", !.prog = p, !.new = q,
                          !.single = (db.programs[p].install_type = "single"),
                          !.todo = db.programs[p].desktops]
            /\ ret' = NoResult
    /\ UNCHANGED <<dbvars, fsvars, envvars, crashes, peer, temp2, backup>>

\* Lines 826-827: the program's path in one .desktop file.
RenameDesktop ==
    /\ pc = "rn_desktop"
    /\ \E d \in ctx.todo :
          IF d \notin DOMAIN apps
          THEN /\ Raise("FileNotFoundError")
               /\ UNCHANGED <<disk, apps>>
          ELSE /\ apps' = [apps EXCEPT
                             ![d].dir = ReplacePrefix(@, ctx.prog, ctx.new)]
               /\ ctx' = [ctx EXCEPT !.todo = @ \ {d}, !.cur = d]
               /\ pc' = IF ctx.single THEN "rn_desktop_file"
                        ELSE IF ctx.todo = {d} THEN "rn_bash_path"
                        ELSE "rn_desktop"
               /\ UNCHANGED <<ret, dbvars, hist>>
    /\ UNCHANGED <<bin, bashrc, fishrc, temp, envvars, crashes, peer, temp2, backup, ops>>

\* Lines 829-830: for a single-file program, the file name after the path.
RenameDesktopFile ==
    /\ pc = "rn_desktop_file"
    /\ apps' = [apps EXCEPT ![ctx.cur].file =
                   IF apps[ctx.cur].dir = ctx.new
                   THEN ReplacePrefix(@, ctx.prog, ctx.new) ELSE @]
    /\ pc' = "rn_desktop_move"
    /\ UNCHANGED <<ctx, ret, dbvars, bin, bashrc, fishrc, temp, envvars,
                   crashes, peer, temp2, backup, ops, hist>>

\* Lines 831-832: <program>-<program>.desktop is moved.
RenameDesktopMove ==
    /\ pc = "rn_desktop_move"
    /\ LET old == <<ctx.prog, ctx.prog>>
           new == <<ctx.new, ctx.new>>
       IN  IF old \notin DOMAIN apps
           THEN /\ Raise("FileNotFoundError")
                /\ UNCHANGED <<disk, apps>>
           ELSE /\ apps' = RenameKey(apps, old, new)
                /\ pc' = IF ctx.todo = {} THEN "rn_bash_path"
                         ELSE "rn_desktop"
                /\ UNCHANGED <<ctx, ret, dbvars, hist>>
    /\ UNCHANGED <<bin, bashrc, fishrc, temp, envvars, crashes, peer, temp2, backup, ops>>

\* Line 835: the in-memory key changes.
RenamePop(d, p, q) == [d EXCEPT !.programs = RenameKey(@, p, q)]

\* Lines 835-837.
RenameBashPath ==
    /\ pc = "rn_bash_path"
    /\ db' = RenamePop(db, ctx.prog, ctx.new)
    /\ bashrc' = MapLines(bashrc,
                          LAMBDA l : BashPathReplace(l, ctx.prog, ctx.new))
    /\ pc' = "rn_fish_path"
    /\ UNCHANGED <<ctx, ret, disk, bin, fishrc, apps, temp, envvars, crashes, peer, temp2, backup,
                   ops, hist>>

\* Lines 838-839.
RenameFishPath ==
    /\ pc = "rn_fish_path"
    /\ fishrc' = MapLines(fishrc,
                          LAMBDA l : FishPathReplace(l, ctx.prog, ctx.new))
    /\ pc' = "rn_bash_alias"
    /\ UNCHANGED <<ctx, ret, dbvars, bin, bashrc, apps, temp, envvars,
                   crashes, peer, temp2, backup, ops, hist>>

\* Lines 842-843.
RenameBashAlias ==
    /\ pc = "rn_bash_alias"
    /\ bashrc' = MapLines(bashrc,
                          LAMBDA l : BashAliasReplace(l, ctx.prog, ctx.new))
    /\ pc' = "rn_fish_alias"
    /\ UNCHANGED <<ctx, ret, dbvars, bin, fishrc, apps, temp, envvars,
                   crashes, peer, temp2, backup, ops, hist>>

\* Lines 844-845.
RenameFishAlias ==
    /\ pc = "rn_fish_alias"
    /\ fishrc' = MapLines(fishrc,
                          LAMBDA l : FishAliasReplace(l, ctx.prog, ctx.new))
    /\ pc' = IF ctx.single THEN "rn_single_bash" ELSE "rn_bash_tag"
    /\ UNCHANGED <<ctx, ret, dbvars, bin, bashrc, apps, temp, envvars,
                   crashes, peer, temp2, backup, ops, hist>>

\* Lines 847-848.
RenameSingleBash ==
    /\ pc = "rn_single_bash"
    /\ bashrc' = MapLines(bashrc,
          LAMBDA l : AliasNameReplace(FileReplace(l, ctx.prog, ctx.new),
                                      ctx.prog, ctx.new))
    /\ pc' = "rn_single_fish"
    /\ UNCHANGED <<ctx, ret, dbvars, bin, fishrc, apps, temp, envvars,
                   crashes, peer, temp2, backup, ops, hist>>

\* Lines 849-850.
RenameSingleFish ==
    /\ pc = "rn_single_fish"
    /\ fishrc' = MapLines(fishrc,
          LAMBDA l : AliasNameReplace(FileReplace(l, ctx.prog, ctx.new),
                                      ctx.prog, ctx.new))
    /\ pc' = "rn_bash_tag"
    /\ UNCHANGED <<ctx, ret, dbvars, bin, bashrc, apps, temp, envvars,
                   crashes, peer, temp2, backup, ops, hist>>

\* Line 853.
RenameBashTag ==
    /\ pc = "rn_bash_tag"
    /\ bashrc' = MapLines(bashrc, LAMBDA l : TagReplace(l, ctx.prog, ctx.new))
    /\ pc' = "rn_fish_tag"
    /\ UNCHANGED <<ctx, ret, dbvars, bin, fishrc, apps, temp, envvars,
                   crashes, peer, temp2, backup, ops, hist>>

\* Line 854.
RenameFishTag ==
    /\ pc = "rn_fish_tag"
    /\ fishrc' = MapLines(fishrc, LAMBDA l : TagReplace(l, ctx.prog, ctx.new))
    /\ pc' = "rn_move"
    /\ UNCHANGED <<ctx, ret, dbvars, bin, bashrc, apps, temp, envvars,
                   crashes, peer, temp2, backup, ops, hist>>

\* Line 855: move of the program's directory.
RenameMove ==
    /\ pc = "rn_move"
    /\ IF ctx.prog \notin DOMAIN bin
       THEN /\ Raise("FileNotFoundError")
            /\ UNCHANGED <<disk, bin>>
       ELSE IF MoveFails(bin, ctx.new, ctx.prog)
       THEN /\ Raise("shutil.Error")
            /\ UNCHANGED <<disk, bin>>
       ELSE /\ bin' = rmtree(MoveInto(bin, ctx.new, ctx.prog, bin[ctx.prog]),
                             ctx.prog)
            /\ pc' = "rn_write"
            /\ UNCHANGED <<ctx, ret, dbvars, hist>>
    /\ UNCHANGED <<bashrc, fishrc, apps, temp, envvars, crashes, peer, temp2, backup, ops>>

\* Line 856: the manifest is persisted.
RenameWrite ==
    /\ pc = "rn_write"
    /\ write_db(db)
    /\ IF ctx.single
       THEN /\ pc' = "rn_payload"
            /\ UNCHANGED <<ctx, ret>>
       ELSE Return("new_name")
    /\ UNCHANGED <<db, fsvars, envvars, crashes, peer, temp2, backup, ops, hist>>

\* Line 860: the single file is moved to its new name.
RenamePayload ==
    /\ pc = "rn_payload"
    /\ IF ctx.prog \notin bin[ctx.new]
       THEN /\ Raise("FileNotFoundError")
            /\ UNCHANGED <<disk, bin>>
       ELSE /\ bin' = [bin EXCEPT ![ctx.new] = (@ \ {ctx.prog}) \cup {ctx.new}]
            /\ Return("new_name")
            /\ UNCHANGED <<dbvars, hist>>
    /\ UNCHANGED <<bashrc, fishrc, apps, temp, envvars, crashes, peer, temp2, backup, ops>>

(***************************************************************************)
(* pre_singleinstall and single_install (lines 680-691, 1422-1447).        *)
(***************************************************************************)
SingleFile(n) == [exists |-> TRUE, name |-> n, ext |-> "", layout |-> "file"]

SingleFiles == {SingleFile(n) : n \in Names}

pre_singleinstall(a, reinstall) ==
    /\ Call("pre_singleinstall", a.name, NoName,
            LET trip == InstallTrip(a.exists, a.name, reinstall)
            IN  IF trip = "installing" THEN "none" ELSE trip)
    /\ HasPrograms(db)
    /\ IF ~a.exists
       THEN /\ pc' = "ready"
            /\ ctx' = NoCtx
            /\ ret' = Result("pre_singleinstall", a.name, "Bad file")
       ELSE IF a.name \in Installed(db) /\ reinstall = "None"
       THEN /\ pc' = "ready"
            /\ ctx' = NoCtx
            /\ ret' = Result("pre_singleinstall", a.name, "Application exists")
       ELSE /\ pc' = IF a.name \in Installed(db) THEN "si_remove"
                     ELSE "si_mkdir"
            /\ ctx' = [NoCtx EXCEPT !.op = "pre_singleinstall",
                          !.prog = a.name, !.arch = a, !.single = TRUE,
                          !.ow = IF a.name \in Installed(db) THEN "True"
                                 ELSE "False"]
            /\ ret' = NoResult
    /\ UNCHANGED <<dbvars, fsvars, envvars, crashes, peer, temp2, backup>>

\* Line 1435: os.mkdir of the program's directory.
SingleMkdir ==
    /\ pc = "si_mkdir"
    /\ IF ctx.prog \in DOMAIN bin
       THEN /\ Raise("FileExistsError")
            /\ UNCHANGED <<disk, bin>>
       ELSE /\ bin' = PutDir(bin, ctx.prog, {})
            /\ pc' = "si_move"
            /\ hist' = progress(hist, <<Whole(5), Whole(10)>>)
            /\ UNCHANGED <<ctx, ret, dbvars>>
    /\ UNCHANGED <<bashrc, fishrc, apps, temp, envvars, crashes, peer, temp2, backup, ops>>

\* Line 1442: on a reinstall the old file is removed.
SingleRemove ==
    /\ pc = "si_remove"
    /\ IF ctx.prog \notin DOMAIN bin \/ ctx.prog \notin bin[ctx.prog]
       THEN /\ Raise("FileNotFoundError")
            /\ UNCHANGED <<disk, bin>>
       ELSE /\ bin' = [bin EXCEPT ![ctx.prog] = @ \ {ctx.prog}]
            /\ pc' = "si_move"
            /\ hist' = progress(hist, <<Whole(5), Whole(10)>>)
            /\ UNCHANGED <<ctx, ret, dbvars>>
    /\ UNCHANGED <<bashrc, fishrc, apps, temp, envvars, crashes, peer, temp2, backup, ops>>

\* Line 1445: the file is moved to <program>/<program>.
SingleMove ==
    /\ pc = "si_move"
    /\ IF ctx.prog \notin DOMAIN bin
       THEN /\ Raise("FileNotFoundError")
            /\ UNCHANGED <<disk, bin>>
       ELSE /\ bin' = [bin EXCEPT ![ctx.prog] = @ \cup {ctx.prog}]
            /\ pc' = "fin_record"
            /\ hist' = progress(hist, <<Whole(15), Whole(90)>>)
            /\ UNCHANGED <<ctx, ret, dbvars>>
    /\ UNCHANGED <<bashrc, fishrc, apps, temp, envvars, crashes, peer, temp2, backup, ops>>

(***************************************************************************)
(* pre_gitinstall and gitinstall (lines 694-722, 960-997).  A URL is well  *)
(* formed or not and names the repository config.name derives the program  *)
(* name from; git clone makes a directory of that name.                    *)
(***************************************************************************)
GitUrl(n, ok) == [exists |-> ok, name |-> n, ext |-> ".git", layout |-> "repo"]

GitUrls == {GitUrl(n, TRUE) : n \in Names} \cup {GitUrl(NameA, FALSE)}

pre_gitinstall(a, ow, git) ==
    /\ Call("pre_gitinstall", a.name, NoName,
            LET trip == InstallTrip(git /\ a.exists, a.name, ow)
            IN  IF trip = "installing" THEN "none" ELSE trip)
    /\ HasPrograms(db)
    /\ IF ~git \/ ~a.exists
       THEN /\ pc' = "ready"
            /\ ctx' = NoCtx
            /\ ret' = Result("pre_gitinstall", a.name,
                             IF ~git THEN "No git" ELSE "Bad URL")
       ELSE IF a.name \in Installed(db) /\ ow = "None"
       THEN /\ pc' = "ready"
            /\ ctx' = NoCtx
            /\ ret' = Result("pre_gitinstall", a.name, "Application exists")
       ELSE /\ pc' = IF a.name \in Installed(db) /\ ow = "False"
                     THEN "un_rmtree" ELSE "gi_begin"
            /\ ctx' = [NoCtx EXCEPT !.op = "pre_gitinstall", !.prog = a.name,
                          !.arch = a,
                          !.ow = IF a.name \in Installed(db) THEN ow
                                 ELSE "False"]
            /\ ret' = NoResult
    /\ UNCHANGED <<dbvars, fsvars, envvars, crashes, peer, temp2, backup>>

\* Lines 974-986: the rsync check; with overwrite the staging directory is
\* made anew.
GitBegin ==
    /\ pc = "gi_begin"
    /\ \E rsync \in BOOLEAN :
          IF ctx.ow = "True" /\ ~rsync
          THEN /\ Return("No rsync")
               /\ UNCHANGED temp
          ELSE /\ temp' = (temp \/ ctx.ow = "True")
               /\ pc' = "gi_clone"
               /\ UNCHANGED <<ctx, ret>>
    /\ hist' = IF pc' = "gi_clone" THEN progress(hist, <<Whole(5)>>) ELSE hist
    /\ UNCHANGED <<dbvars, bin, bashrc, fishrc, apps, envvars, crashes, peer, temp2, backup,
                   ops>>

\* A clone that stopped half way, its directory left behind.
clone_failed_partial(b, n) == PutDir(b, n, {})

\* Lines 987-989: git removes the directory it made when the clone fails,
\* and gitinstall returns at once.
clone_failed(b, n) == b

\* Lines 987-989: the clone, into the staging directory (overwrite) or into
\* the managed tree, where a directory of the name makes it fail.
GitClone ==
    /\ pc = "gi_clone"
    /\ \E err \in BOOLEAN :
          IF err \/ (ctx.ow # "True" /\ ctx.prog \in DOMAIN bin)
          THEN /\ Return("Error")
               /\ Log("clone failed")
               /\ bin' = IF ctx.ow = "True" THEN bin
                         ELSE clone_failed(bin, ctx.prog)
          ELSE IF ctx.ow = "True"
          THEN /\ pc' = "gi_sync"
               /\ hist' = progress(hist, <<Whole(65)>>)
               /\ UNCHANGED <<ctx, ret, bin>>
          ELSE /\ bin' = PutDir(bin, ctx.prog, {PayloadFile})
               /\ pc' = "fin_record"
               /\ hist' = progress(hist, <<Whole(65)>>)
               /\ UNCHANGED <<ctx, ret>>
    /\ UNCHANGED <<dbvars, bashrc, fishrc, apps, temp, envvars, crashes, peer, temp2, backup,
                   ops>>

\* Lines 991-997: with overwrite, rsync from the staging directory; the
\* staging directory stays.
GitSync ==
    /\ pc = "gi_sync"
    /\ bin' = Rsync(bin, ctx.prog, {PayloadFile})
    /\ Return("Installed")
    /\ hist' = progress(hist, <<Whole(100)>>)
    /\ UNCHANGED <<dbvars, bashrc, fishrc, apps, temp, envvars, crashes, peer, temp2, backup,
                   ops>>

(***************************************************************************)
(* pre_dirinstall and dirinstall (lines 725-739, 1450-1476).  A folder is  *)
(* a directory whose path ends with "/" or not, and config.dirname derives *)
(* the program name from it.                                               *)
(***************************************************************************)
Folder(n, ok) == [exists |-> ok, name |-> n, ext |-> "/", layout |-> "dir"]

Folders == {Folder(n, TRUE) : n \in Names} \cup {Folder(NameA, FALSE)}

\* The folder ~/.tarstall/bin/<n>/ itself, given as the source.
ManagedFolder(n) ==
    [exists |-> TRUE, name |-> n, ext |-> "/", layout |-> "managed"]

\* Line 726: os.path.isdir of the source.
IsDir(a) == IF a.layout = "managed" THEN a.name \in DOMAIN bin ELSE a.exists

pre_dirinstall(a, ow) ==
    /\ Call("pre_dirinstall", a.name, NoName,
            LET trip == InstallTrip(a.exists, a.name, ow)
            IN  IF trip = "installing" THEN "none" ELSE trip)
    /\ HasPrograms(db)
    /\ IF ~IsDir(a)
       THEN /\ pc' = "ready"
            /\ ctx' = NoCtx
            /\ ret' = Result("pre_dirinstall", a.name, "Bad folder")
       ELSE IF a.name \in Installed(db) /\ ow = "None"
       THEN /\ pc' = "ready"
            /\ ctx' = NoCtx
            /\ ret' = Result("pre_dirinstall", a.name, "Application exists")
       ELSE /\ pc' = IF a.name \in Installed(db) /\ ow = "False"
                     THEN "un_rmtree" ELSE "di_begin"
            /\ ctx' = [NoCtx EXCEPT !.op = "pre_dirinstall", !.prog = a.name,
                          !.arch = a,
                          !.ow = IF a.name \in Installed(db) THEN ow
                                 ELSE "False"]
            /\ ret' = NoResult
    /\ UNCHANGED <<dbvars, fsvars, envvars, crashes, peer, temp2, backup>>

\* Lines 1464-1466: the rsync check.
DirBegin ==
    /\ pc = "di_begin"
    /\ \E rsync \in BOOLEAN :
          IF ctx.ow = "True" /\ ~rsync
          THEN Return("No rsync")
          ELSE /\ pc' = "di_move"
               /\ UNCHANGED <<ctx, ret>>
    /\ hist' = progress(hist, <<Whole(10)>>)
    /\ UNCHANGED <<dbvars, fsvars, envvars, crashes, peer, temp2, backup, ops>>

\* Lines 1468-1476: with overwrite, rsync over the program's directory and
\* rmtree of the folder; else the folder is moved into the managed tree,
\* which fails on a directory of its name, or when the folder is gone.  A
\* folder that is the program's directory is merged into itself and then
\* removed.
DirMove ==
    /\ pc = "di_move"
    /\ IF ctx.ow = "True"
       THEN /\ bin' = IF ctx.arch.layout = "managed"
                      THEN rmtree(bin, ctx.prog)
                      ELSE Rsync(bin, ctx.prog, {PayloadFile})
            /\ Return("Installed")
            /\ UNCHANGED <<dbvars, hist>>
       ELSE IF ctx.prog \in DOMAIN bin
       THEN /\ Raise("shutil.Error")
            /\ UNCHANGED <<disk, bin>>
       ELSE IF ctx.arch.layout = "managed"
       THEN /\ Raise("FileNotFoundError")
            /\ UNCHANGED <<disk, bin>>
       ELSE /\ bin' = PutDir(bin, ctx.prog, {PayloadFile})
            /\ pc' = "fin_record"
            /\ UNCHANGED <<ctx, ret, dbvars, hist>>
    /\ UNCHANGED <<bashrc, fishrc, apps, temp, envvars, crashes, peer, temp2, backup, ops>>

(***************************************************************************)
(* update_program (lines 304-356) with update_git_program (lines 382-415)  *)
(* and wget_program (lines 256-301).  hist.ran logs what each source did:  *)
(* "no git", "git failed", "git" (pulled, or nothing new), "no wget",      *)
(* "wget failed", "wget" (downloaded), "script", "script failed".          *)
(***************************************************************************)
Url == "url"
ScriptPath == "script"
PulledFile == <<"y">>

\* Lines 315-324: the number of the sources a record names: a fetch (git or
\* URL) and a script.
Progs(r) ==
    (IF r.install_type = "git" \/ r.update_url # "None" THEN 1 ELSE 0)
       + (IF r.post_upgrade_script # "None" THEN 1 ELSE 0)

\* Lines 316-325, 355: the count of the sources; a recorded script that is
\* gone is dropped from the record, which is persisted; with no source at
\* all the program does not update.
update_program(p, exists) ==
    /\ Call("update_program", p, NoName, "upgrading")
    /\ p \in Installed(db)
    /\ LET r == db.programs[p]
       IN  IF r.post_upgrade_script # "None" /\ ~exists
           THEN /\ db' = SetField(db, p, "post_upgrade_script", "None")
                /\ write_db(db')
                /\ pc' = "ready"
                /\ ctx' = NoCtx
                /\ ret' = Result("update_program", p, "No script")
           ELSE IF r.install_type = "git" \/ r.update_url # "None"
                   \/ r.post_upgrade_script # "None"
           THEN /\ pc' = IF r.install_type = "git" THEN "ug_pull"
                         ELSE IF r.update_url # "None" THEN "wg_begin"
                         ELSE "ug_script"
                /\ ctx' = [NoCtx EXCEPT !.op = "update_program", !.prog = p]
                /\ ret' = NoResult
                /\ UNCHANGED dbvars
           ELSE /\ pc' = "ready"
                /\ ctx' = NoCtx
                /\ ret' = Result("update_program", p, "Does not update")
                /\ UNCHANGED dbvars
    /\ UNCHANGED <<fsvars, envvars, crashes, peer, temp2, backup>>

\* Lines 395-415: git pull in the program's directory and its status.
update_git_program ==
    /\ pc = "ug_pull"
    /\ \E git \in BOOLEAN,
          status \in {"Error updating", "No update", "Success"} :
          IF ~git
          THEN /\ ctx' = [ctx EXCEPT !.status = "No git"]
               /\ pc' = "ug_done"
               /\ Log("no git")
               /\ UNCHANGED <<ret, db, bin>>
          ELSE IF ctx.prog \notin DOMAIN bin
          THEN /\ Raise("FileNotFoundError")
               /\ UNCHANGED bin
          ELSE /\ ctx' = [ctx EXCEPT !.status = status]
               /\ pc' = "ug_done"
               /\ LogBar(IF status = "Error updating" THEN "git failed"
                         ELSE "git",
                         LET progress_modifier == Progs(db.programs[ctx.prog])
                         IN  <<Frac(5, progress_modifier),
                               Frac(95, progress_modifier),
                               Frac(100, progress_modifier)>>)
               /\ bin' = IF status = "Success"
                         THEN Rsync(bin, ctx.prog, {PulledFile}) ELSE bin
               /\ UNCHANGED <<ret, db>>
    /\ UNCHANGED <<disk, bashrc, fishrc, apps, temp, envvars, crashes, peer,
                   temp2, backup, ops>>

\* Faulty variant: no status of git pull ends the update.
GitFailedNever(status) == FALSE

\* Line 328: the statuses of update_git_program that end the update.
GitFailed(status) == status # "Success" /\ status # "No update"

\* Lines 327-334: what follows the pull.
UpdateProgramGit ==
    /\ pc = "ug_done"
    /\ IF GitFailed(ctx.status)
       THEN Return(ctx.status)
       ELSE IF db.programs[ctx.prog].post_upgrade_script = "None"
       THEN Return(ctx.status)
       ELSE IF ctx.status = "No update"
       THEN Return(ctx.status)
       ELSE /\ pc' = "ug_script"
            /\ UNCHANGED <<ctx, ret>>
    /\ hist' = IF /\ ~GitFailed(ctx.status)
                  /\ db.programs[ctx.prog].post_upgrade_script # "None"
                  /\ ctx.status = "No update"
               THEN progress(hist, <<Whole(100)>>)
               ELSE hist
    /\ UNCHANGED <<dbvars, fsvars, envvars, crashes, peer, temp2, backup, ops>>

\* Lines 268-277: the check for wget; /tmp/tarstall-temp2 is made anew.
wget_program ==
    /\ pc = "wg_begin"
    /\ \E wget \in BOOLEAN :
          IF ~wget
          THEN /\ ctx' = [ctx EXCEPT !.status = "No wget"]
               /\ pc' = "wg_done"
               /\ Log("no wget")
               /\ UNCHANGED <<temp2, backup>>
          ELSE /\ temp2' = TRUE
               /\ UNCHANGED backup
               /\ pc' = "wg_fetch"
               /\ hist' = progress(hist,
                                   <<Frac(10, Progs(db.programs[ctx.prog]))>>)
               /\ UNCHANGED ctx
    /\ UNCHANGED <<ret, dbvars, fsvars, envvars, crashes, peer, ops>>

\* Faulty variant: the exit status of wget is dropped.
DownloadedAlways(err) == TRUE

\* Line 282: wget exited with 0.
Downloaded(err) == err = 0

\* Lines 280-290: the download; the archive is renamed to the program's
\* name and handed to pre_install with overwrite true, which (lines 662-673)
\* finds the file and the program and goes on with install.
WgetDownload ==
    /\ pc = "wg_fetch"
    /\ \E err \in {0, 1}, layout \in {"named", "flat"} :
          /\ LogBar(IF err = 0 THEN "wget" ELSE "wget failed",
                    LET progress_modifier == Progs(db.programs[ctx.prog])
                    IN  IF ~Downloaded(err) THEN <<>>
                        ELSE <<Frac(65, progress_modifier),
                               Frac(70, progress_modifier)>>)
          /\ IF ~Downloaded(err)
             THEN /\ ctx' = [ctx EXCEPT !.status = "Wget error"]
                  /\ pc' = "wg_done"
             ELSE /\ ctx' = [ctx EXCEPT
                                !.arch = Archive(ctx.prog, ".tar.gz", layout),
                                !.ow = "True"]
                  /\ pc' = "in_begin"
    /\ UNCHANGED <<ret, dbvars, fsvars, envvars, crashes, peer, temp2, backup, ops>>

\* Lines 291-300: /tmp/tarstall-temp2 is removed and the status of the
\* install becomes that of wget_program.
WgetInstalled ==
    /\ pc = "wg_clean"
    /\ temp2' = FALSE
    /\ UNCHANGED backup
    /\ ctx' = [ctx EXCEPT !.status = IF @ # "Installed" THEN "Install error"
                                     ELSE "Success"]
    /\ pc' = "wg_done"
    /\ LET progress_modifier == Progs(db.programs[ctx.prog])
       IN  hist' = progress(hist, <<Frac(95, progress_modifier),
                                    Frac(100, progress_modifier)>>)
    /\ UNCHANGED <<ret, dbvars, fsvars, envvars, crashes, peer, ops>>

\* Faulty variant: no status of wget_program ends the update.
WgetFailedNever(status) == FALSE

\* Line 337: the statuses of wget_program that end the update.
WgetFailed(status) == status # "Success"

\* Lines 336-341: what follows the download.
UpdateProgramUrl ==
    /\ pc = "wg_done"
    /\ IF WgetFailed(ctx.status)
       THEN Return(ctx.status)
       ELSE IF db.programs[ctx.prog].post_upgrade_script = "None"
       THEN Return(ctx.status)
       ELSE /\ pc' = "ug_script"
            /\ UNCHANGED <<ctx, ret>>
    /\ UNCHANGED <<dbvars, fsvars, envvars, crashes, peer, temp2, backup, ops, hist>>

\* Lines 349-352: the status for the exit status of the script.
ScriptStatus(err) == IF err # 0 THEN "Script error" ELSE "Success"

\* Lines 342-354: the script is called in the program's directory.
UpdateProgramScript ==
    /\ pc = "ug_script"
    /\ \E err \in {0, 1}, oserror \in BOOLEAN :
          IF oserror
          THEN /\ Return("OSError")
               /\ hist' = progress(hist,
                     <<Whole(50 * (Progs(db.programs[ctx.prog]) - 1))>>)
          ELSE /\ Return(ScriptStatus(err))
               /\ LogBar(IF err = 0 THEN "script" ELSE "script failed",
                         <<Whole(50 * (Progs(db.programs[ctx.prog]) - 1)),
                           Whole(100)>>)
    /\ UNCHANGED <<dbvars, fsvars, envvars, crashes, peer, temp2, backup, ops>>

(***************************************************************************)
(* add_binlink (lines 1000-1025).                                          *)
(***************************************************************************)
BinlinkFiles == {PayloadFile, NameA}

add_binlink(f, p) ==
    /\ Call("add_binlink", p, f, "none")
    /\ p \in Installed(db)
    /\ IF f \in db.programs[p].binlinks
       THEN /\ pc' = "ready"
            /\ ctx' = NoCtx
            /\ ret' = Result("add_binlink", p, "Already there")
            /\ UNCHANGED bashrc
       ELSE /\ bashrc' = add_line(AliasLine(f, p, f), bashrc)
            /\ pc' = "ab_fish"
            /\ ctx' = [NoCtx EXCEPT !.op = "add_binlink", !.prog = p,
                                    !.new = f]
            /\ ret' = NoResult
    /\ UNCHANGED <<dbvars, bin, fishrc, apps, temp, envvars, crashes, peer, temp2, backup>>

BinlinkFish ==
    /\ pc = "ab_fish"
    /\ fishrc' = add_line(AliasLine(ctx.new, ctx.prog, ctx.new), fishrc)
    /\ pc' = "ab_record"
    /\ UNCHANGED <<ctx, ret, dbvars, bin, bashrc, apps, temp, envvars,
                   crashes, peer, temp2, backup, ops, hist>>

BinlinkRecord ==
    /\ pc = "ab_record"
    /\ db' = SetField(db, ctx.prog, "binlinks",
                      db.programs[ctx.prog].binlinks \cup {ctx.new})
    /\ write_db(db')
    /\ Return("Added")
    /\ UNCHANGED <<fsvars, envvars, crashes, peer, temp2, backup, ops, hist>>

(***************************************************************************)
(* create_desktop for a program of the manifest (lines 893-957).  The      *)
(* .desktop file is named <file>-<program> and holds the program's path.   *)
(***************************************************************************)
DesktopName(f, p) == <<f, p>>

DesktopFile(f, p) == [dir |-> p, file |-> f]

PutFile(a, d, c) == [x \in DOMAIN a \cup {d} |-> IF x = d THEN c ELSE a[x]]

create_desktop(p, f) ==
    /\ Call("create_desktop", p, f, "none")
    /\ p \in Installed(db)
    /\ IF DesktopName(f, p) \in DOMAIN apps
       THEN /\ pc' = "ready"
            /\ ctx' = NoCtx
            /\ ret' = Result("create_desktop", p, "Already exists")
            /\ UNCHANGED apps
       ELSE /\ apps' = PutFile(apps, DesktopName(f, p), DesktopFile(f, p))
            /\ pc' = "cd_record"
            /\ ctx' = [NoCtx EXCEPT !.op = "create_desktop", !.prog = p,
                                    !.new = f]
            /\ ret' = NoResult
    /\ UNCHANGED <<dbvars, bin, bashrc, fishrc, temp, envvars, crashes, peer, temp2, backup>>

DesktopRecord ==
    /\ pc = "cd_record"
    /\ db' = SetField(db, ctx.prog, "desktops",
                      db.programs[ctx.prog].desktops
                        \cup {DesktopName(ctx.new, ctx.prog)})
    /\ write_db(db')
    /\ Return("Created")
    /\ UNCHANGED <<fsvars, envvars, crashes, peer, temp2, backup, ops, hist>>

(***************************************************************************)
(* remove_desktop (lines 771-787) and remove_paths_and_binlinks (lines     *)
(* 790-807).                                                               *)
(***************************************************************************)
\* Lines 782-785: the .desktop file is removed; one that is missing is
\* passed over.
remove_desktop(p, d) ==
    /\ Call("remove_desktop", p, NoName, "none")
    /\ p \in Installed(db)
    /\ apps' = RemoveFile(apps, d)
    /\ pc' = "rd_record"
    /\ ctx' = [NoCtx EXCEPT !.op = "remove_desktop", !.prog = p, !.todo = {d}]
    /\ ret' = NoResult
    /\ UNCHANGED <<dbvars, bin, bashrc, fishrc, temp, envvars, crashes, peer, temp2, backup>>

\* Lines 786-787: list.remove of the name, which fails on a name the record
\* does not hold; the manifest is persisted.
RemoveDesktopRecord ==
    /\ pc = "rd_record"
    /\ IF ~(ctx.todo \subseteq db.programs[ctx.prog].desktops)
       THEN /\ Raise("ValueError")
            /\ UNCHANGED disk
       ELSE /\ db' = SetField(db, ctx.prog, "desktops",
                              db.programs[ctx.prog].desktops \ ctx.todo)
            /\ write_db(db')
            /\ Return("None")
            /\ UNCHANGED hist
    /\ UNCHANGED <<fsvars, envvars, crashes, peer, temp2, backup, ops>>

\* Faulty variant: the program is never taken to be without PATH and
\* binlinks.
NoneExistNever(d, p) == FALSE

\* Line 800: the record has no PATH entry and no binlinks.
NoneExist(d, p) == ~d.programs[p].has_path /\ d.programs[p].binlinks = {}

\* Lines 800-802: nothing to remove, or the tagged lines leave .bashrc.
remove_paths_and_binlinks(p) ==
    /\ Call("remove_paths_and_binlinks", p, NoName, "none")
    /\ p \in Installed(db)
    /\ IF NoneExist(db, p)
       THEN /\ pc' = "ready"
            /\ ctx' = NoCtx
            /\ ret' = Result("remove_paths_and_binlinks", p, "None exist")
            /\ UNCHANGED bashrc
       ELSE /\ bashrc' = remove_line(p, bashrc)
            /\ pc' = "rp_fish"
            /\ ctx' = [NoCtx EXCEPT !.op = "remove_paths_and_binlinks",
                                    !.prog = p]
            /\ ret' = NoResult
    /\ UNCHANGED <<dbvars, bin, fishrc, apps, temp, envvars, crashes, peer, temp2, backup>>

\* Line 803: the tagged lines leave .fishrc.
RemovePathsFish ==
    /\ pc = "rp_fish"
    /\ fishrc' = remove_line(ctx.prog, fishrc)
    /\ pc' = "rp_record"
    /\ UNCHANGED <<ctx, ret, dbvars, bin, bashrc, apps, temp, envvars,
                   crashes, peer, temp2, backup, ops, hist>>

\* Lines 804-807: the two fields are reset and the manifest persisted.
RemovePathsRecord ==
    /\ pc = "rp_record"
    /\ db' = SetField(SetField(db, ctx.prog, "has_path", FALSE),
                      ctx.prog, "binlinks", {})
    /\ write_db(db')
    /\ Return("Complete")
    /\ UNCHANGED <<fsvars, envvars, crashes, peer, temp2, backup, ops, hist>>

(***************************************************************************)
(* repair_db (lines 166-229): the manifest is built anew from the listing  *)
(* of the managed tree and from the lines of ~/.tarstall/.bashrc.          *)
(***************************************************************************)
DotGit == <<".git">>

\* Lines 180-188: the record re-discovered for the directory n.
Discovered(b, n) ==
    NewRecord(IF DotGit \in b[n] THEN "git"
              ELSE IF Cardinality(b[n]) = 1 THEN "single" ELSE "default")

\* Lines 198-202 and 208-213: the programs named after the # of the lines
\* that start with "export PATH=$PATH" or with "alias ".
Reregistered(file, kind) ==
    {file[i].tag : i \in {j \in 1..Len(file) : file[j].kind = kind}}

\* Lines 176-213: new_db as the loops leave it.
new_db(b, file) ==
    [get_default_db EXCEPT !.programs =
        [n \in DOMAIN b |->
            [Discovered(b, n) EXCEPT
                !.has_path = n \in Reregistered(file, "path"),
                !.binlinks = {file[i].name : i \in
                                 {j \in 1..Len(file) :
                                     file[j].kind = "alias"
                                       /\ file[j].tag = n}}]]]

\* Lines 176-188: the stock manifest and the listing of the managed tree.
repair_db ==
    /\ Call("repair_db", NoName, NoName, "none")
    /\ pc' = "rdb_paths"
    /\ ctx' = [NoCtx EXCEPT !.op = "repair_db"]
    /\ ret' = NoResult
    /\ UNCHANGED <<dbvars, fsvars, envvars, crashes, peer, temp2, backup>>

\* Lines 198-202: has_path of the program each PATH line names; a name
\* that was not re-discovered is a KeyError.
RepairPaths ==
    /\ pc = "rdb_paths"
    /\ IF ~(Reregistered(bashrc, "path") \subseteq DOMAIN bin)
       THEN /\ Raise("KeyError")
            /\ UNCHANGED disk
       ELSE /\ pc' = "rdb_binlinks"
            /\ UNCHANGED <<ctx, ret, dbvars, hist>>
    /\ UNCHANGED <<fsvars, envvars, crashes, peer, temp2, backup, ops>>

\* Lines 208-213: the binlinks of the program each alias line names.
RepairBinlinks ==
    /\ pc = "rdb_binlinks"
    /\ IF ~(Reregistered(bashrc, "alias") \subseteq DOMAIN bin)
       THEN /\ Raise("KeyError")
            /\ UNCHANGED disk
       ELSE /\ pc' = "rdb_backup"
            /\ UNCHANGED <<ctx, ret, dbvars, hist>>
    /\ UNCHANGED <<fsvars, envvars, crashes, peer, temp2, backup, ops>>

\* Lines 218-220: the database file is moved to the backup.
RepairBackup ==
    /\ pc = "rdb_backup"
    /\ IF disk = NotFound
       THEN /\ Raise("FileNotFoundError")
            /\ UNCHANGED <<disk, backup>>
       ELSE /\ backup' = disk
            /\ disk' = NotFound
            /\ pc' = "rdb_write"
            /\ UNCHANGED <<ctx, ret, db, hist>>
    /\ UNCHANGED <<fsvars, envvars, crashes, peer, temp2, ops>>

\* Lines 225-229: the new manifest is persisted.
RepairWrite ==
    /\ pc = "rdb_write"
    /\ db' = new_db(bin, bashrc)
    /\ write_db(db')
    /\ Return("None")
    /\ UNCHANGED <<fsvars, envvars, crashes, peer, temp2, backup, ops, hist>>

(***************************************************************************)
(* add_upgrade_url, remove_update_url and update_script (lines 233-253,    *)
(* 359-379).                                                               *)
(***************************************************************************)
\* Lines 241-242.
add_upgrade_url(p, url) ==
    /\ Call("add_upgrade_url", p, NoName, "none")
    /\ p \in Installed(db)
    /\ db' = SetField(db, p, "update_url", url)
    /\ write_db(db')
    /\ pc' = "ready"
    /\ ctx' = NoCtx
    /\ ret' = Result("add_upgrade_url", p, "None")
    /\ UNCHANGED <<fsvars, envvars, crashes, peer, temp2, backup>>

\* Lines 252-253.
remove_update_url(p) ==
    /\ Call("remove_update_url", p, NoName, "none")
    /\ p \in Installed(db)
    /\ db' = SetField(db, p, "update_url", "None")
    /\ write_db(db')
    /\ pc' = "ready"
    /\ ctx' = NoCtx
    /\ ret' = Result("remove_update_url", p, "None")
    /\ UNCHANGED <<fsvars, envvars, crashes, peer, temp2, backup>>

\* Lines 372-379: an empty path wipes the script in memory and returns; a
\* path that exists is set and persisted.
update_script(p, script_path, exists) ==
    /\ Call("update_script", p, NoName, "none")
    /\ p \in Installed(db)
    /\ IF script_path = ""
       THEN /\ db' = SetField(db, p, "post_upgrade_script", "None")
            /\ UNCHANGED disk
            /\ ret' = Result("update_script", p, "Wiped")
       ELSE IF ~exists
       THEN /\ UNCHANGED dbvars
            /\ ret' = Result("update_script", p, "Bad path")
       ELSE /\ db' = SetField(db, p, "post_upgrade_script", script_path)
            /\ write_db(db')
            /\ ret' = Result("update_script", p, "Success")
    /\ pc' = "ready"
    /\ ctx' = NoCtx
    /\ UNCHANGED <<fsvars, envvars, crashes, peer, temp2, backup>>

(***************************************************************************)
(* The lifecycle specification: an installed engine with an empty manifest *)
(* on which programs are installed, put on PATH, renamed and uninstalled,  *)
(* and whose process may be killed at any step.                            *)
(***************************************************************************)
NoApps == [d \in {} |-> 0]

Installation(budget) ==
    /\ pc = "idle"
    /\ ctx = NoCtx
    /\ ret = NoResult
    /\ db = get_default_db
    /\ disk = get_default_db
    /\ bin = NoDirs
    /\ bashrc = <<EngineLine>>
    /\ fishrc = <<EngineLine>>
    /\ apps = NoApps
    /\ temp = FALSE
    /\ lock = FALSE
    /\ engine = InstalledEngine("old")
    /\ staging = FALSE
    /\ crashes = 0
    /\ peer = "none"
    /\ temp2 = FALSE
    /\ backup = NotFound
    /\ ops = budget
    /\ hist = History(get_default_db)

Init == Installation(MaxOps)

Startup ==
    \/ \E del_lock \in BOOLEAN : StartupLock(del_lock)
    \/ StartupDowngradeCreate
    \/ StartupDowngradeReload
    \/ StartupDowngradeWipe
    \/ \E start_fts \in BOOLEAN, force_fix \in BOOLEAN :
          StartupChecks(start_fts, force_fix)
    \/ StartupFinal

FirstTimeSetup ==
    \/ FtsCheck
    \/ FtsWipe
    \/ FtsWipeRest
    \/ FtsTemp
    \/ FtsDb
    \/ FtsCopy
    \/ FtsExecs
    \/ FtsBash
    \/ FtsFish
    \/ FtsUnlock

Update ==
    \/ UpdateCheck
    \/ UpdateCompare
    \/ UpdateClone
    \/ UpdateList
    \/ UpdateRemove
    \/ UpdateMove
    \/ UpdateClean

ChangeBranch ==
    \/ \E branch \in Branches, reset \in BOOLEAN, git \in BOOLEAN :
          change_branch(branch, reset, git)
    \/ ChangeBranchDesktops
    \/ ChangeBranchSentinel
    \/ ChangeBranchUnlock

Pathify ==
    \/ \E p \in Names : pathify(p)
    \/ PathifyFish
    \/ PathifyRecord

Uninstall ==
    \/ \E p \in Names : uninstall(p)
    \/ UninstallRmtree
    \/ UninstallProfile
    \/ UninstallDesktop
    \/ UninstallRecord

PreSingleInstall ==
    \/ \E a \in SingleFiles, r \in {"None", "True"} : pre_singleinstall(a, r)
    \/ SingleMkdir
    \/ SingleRemove
    \/ SingleMove

AddBinlink ==
    \/ \E f \in BinlinkFiles, p \in Names : add_binlink(f, p)
    \/ BinlinkFish
    \/ BinlinkRecord

CreateDesktop ==
    \/ \E f \in BinlinkFiles, p \in Names : create_desktop(p, f)
    \/ DesktopRecord

PreInstall ==
    \/ \E a \in Archives, ow \in Overwrites : pre_install(a, ow)
    \/ InstallBegin
    \/ InstallExtract
    \/ InstallMove
    \/ InstallClean
    \/ FinishInstall

Rename ==
    \/ \E p \in Names, q \in Names : rename(p, q)
    \/ RenameDesktop
    \/ RenameDesktopFile
    \/ RenameDesktopMove
    \/ RenameBashPath
    \/ RenameFishPath
    \/ RenameBashAlias
    \/ RenameFishAlias
    \/ RenameSingleBash
    \/ RenameSingleFish
    \/ RenameBashTag
    \/ RenameFishTag
    \/ RenameMove
    \/ RenameWrite
    \/ RenamePayload

Next ==
    \/ Startup
    \/ PreInstall
    \/ Uninstall
    \/ Pathify
    \/ Rename
    \/ PreSingleInstall
    \/ AddBinlink
    \/ CreateDesktop
    \/ ChangeBranch
    \/ Update
    \/ FirstTimeSetup
    \/ Crash

Spec == Init /\ [][Next]_vars

(***************************************************************************)
(* The PATH specification: installs, pathify, rename and uninstall on an   *)
(* engine that is never interrupted, followed for more operations than the *)
(* lifecycle specification allows.                                         *)
(***************************************************************************)
MaxPathOps == 10

InitPath == Installation(MaxPathOps)

PathArchives == {Archive(n, ".tar.gz", "named") : n \in Names}

NextPath ==
    \/ \E del_lock \in BOOLEAN : StartupLock(del_lock)
    \/ StartupChecks(FALSE, FALSE)
    \/ StartupFinal
    \/ \E a \in PathArchives : pre_install(a, "None")
    \/ InstallBegin
    \/ InstallExtract
    \/ InstallMove
    \/ InstallClean
    \/ FinishInstall
    \/ \E p \in Names : uninstall(p)
    \/ UninstallRmtree
    \/ UninstallProfile
    \/ UninstallRecord
    \/ \E p \in Names : pathify(p)
    \/ PathifyFish
    \/ PathifyRecord
    \/ \E p \in Names, q \in Names : rename(p, q)
    \/ RenameBashPath
    \/ RenameFishPath
    \/ RenameBashAlias
    \/ RenameFishAlias
    \/ RenameBashTag
    \/ RenameFishTag
    \/ RenameMove
    \/ RenameWrite

SpecPath == InitPath /\ [][NextPath]_vars

(***************************************************************************)
(* The startup specification: an installed engine whose persisted manifest *)
(* was written by an engine of any file version since the oldest one the   *)
(* migration loop knows, with the directories and launcher files of the    *)
(* programs it records.  The engine is started, may switch branch and      *)
(* reset, and its process may be killed at any step.                       *)
(***************************************************************************)
MaxStartOps == 1

\* Lines 600-630: the keys a program record and the options have at file
\* version v, read from what each migration step adds and drops.
RecordKeys(v) ==
    {"desktops", "post_upgrade_script"}
      \cup (IF v >= 12 THEN {"update_url"} ELSE {})
      \cup (IF v >= 13 THEN {"has_path", "binlinks"} ELSE {})
      \cup (IF v >= 16 THEN {"install_type"} ELSE {"git_installed"})

OptionKeys(v) ==
    {"Verbose", "AutoInstall", "ShellFile", "SkipQuestions"}
      \cup (IF v >= 14 THEN {"UpdateURLPrograms"} ELSE {})
      \cup (IF v >= 15 THEN {"PressEnterKey"} ELSE {})
      \cup (IF v >= 17 THEN {"WarnMissingDeps"} ELSE {})

InShape(d) ==
    /\ HasPrograms(d)
    /\ DOMAIN d.options = OptionKeys(get_file_version(d))
    /\ \A n \in DOMAIN d.programs :
          DOMAIN d.programs[n] = RecordKeys(get_file_version(d))

OldDesktops(n) == IF n = NameA THEN {DesktopName(PayloadFile, n)} ELSE {}

OldRecord(v, n, git) ==
    [k \in RecordKeys(v) |->
        CASE k = "desktops" -> OldDesktops(n)
          [] k = "git_installed" -> git
          [] k = "install_type" -> (IF git THEN "git" ELSE "default")
          [] k = "has_path" -> FALSE
          [] k = "binlinks" -> {}
          [] OTHER -> "None"]

OldOptions(v, auto) ==
    [k \in OptionKeys(v) |->
        CASE k = "AutoInstall" -> auto
          [] k = "ShellFile" -> "bashrc"
          [] k \in {"PressEnterKey", "WarnMissingDeps"} -> TRUE
          [] OTHER -> FALSE]

OldManifest(v, git, auto) ==
    [options |-> OldOptions(v, auto),
     version |-> [file_version |-> v, prog_internal_version |-> ProgVersion,
                  branch |-> "master"],
     programs |-> [n \in DOMAIN git |-> OldRecord(v, n, git[n])]]

OldManifests ==
    {OldManifest(v, git, auto) :
        v \in OldestVersion..FileVersion,
        git \in UNION {[progs -> BOOLEAN] : progs \in SUBSET Names},
        auto \in BOOLEAN}

InitStartup ==
    /\ pc = "idle"
    /\ ctx = NoCtx
    /\ ret = NoResult
    /\ disk \in OldManifests
    /\ db = disk
    /\ bin = [n \in Installed(disk) |-> {PayloadFile}]
    /\ bashrc = <<EngineLine>>
    /\ fishrc = <<EngineLine>>
    /\ apps = [d \in UNION {OldDesktops(n) : n \in Installed(disk)} |->
                 DesktopFile(PayloadFile, NameA)]
    /\ temp = FALSE
    /\ lock = FALSE
    /\ engine = InstalledEngine("old")
    /\ staging = FALSE
    /\ crashes = 0
    /\ peer = "none"
    /\ temp2 = FALSE
    /\ backup = NotFound
    /\ ops = MaxStartOps
    /\ hist = History(disk)

NextStartup ==
    \/ \E del_lock \in BOOLEAN : StartupLock(del_lock)
    \/ StartupDowngradeCreate
    \/ StartupDowngradeReload
    \/ StartupDowngradeWipe
    \/ \E start_fts \in BOOLEAN, force_fix \in BOOLEAN :
          StartupChecks(start_fts, force_fix)
    \/ StartupMigrateStep
    \/ StartupMigrateWrite
    \/ StartupFinal
    \/ StartupReturn
    \/ FirstTimeSetup
    \/ Update
    \/ ChangeBranch
    \/ Crash

SpecStartup == InitStartup /\ [][NextStartup]_vars

(***************************************************************************)
(* The install specification: the four install variants over names the     *)
(* manifest holds or not, with overwrite unset, false or true, on          *)
(* programs that were put on PATH, given binlinks and launcher files; no   *)
(* process is killed.                                                      *)
(***************************************************************************)
MaxInstallOps == 3

InitInstall == Installation(MaxInstallOps)

PreGitInstall ==
    \/ \E a \in GitUrls, ow \in Overwrites, git \in BOOLEAN :
          pre_gitinstall(a, ow, git)
    \/ GitBegin
    \/ GitClone
    \/ GitSync

PreDirInstall ==
    \/ \E a \in Folders, ow \in Overwrites : pre_dirinstall(a, ow)
    \/ DirBegin
    \/ DirMove

NextInstall ==
    \/ StartupLock(FALSE)
    \/ StartupChecks(FALSE, FALSE)
    \/ StartupFinal
    \/ PreInstall
    \/ PreGitInstall
    \/ PreDirInstall
    \/ \E a \in SingleFiles, r \in Overwrites : pre_singleinstall(a, r)
    \/ SingleMkdir
    \/ SingleRemove
    \/ SingleMove
    \/ UninstallRmtree
    \/ UninstallProfile
    \/ UninstallDesktop
    \/ UninstallRecord
    \/ Pathify
    \/ AddBinlink
    \/ CreateDesktop

SpecInstall == InitInstall /\ [][NextInstall]_vars

(***************************************************************************)
(* The profile specification: one program is installed as a single file or *)
(* from an archive, put on PATH, given aliases and launchers, stripped of  *)
(* them, renamed and uninstalled, on an engine that is never interrupted.  *)
(***************************************************************************)
MaxMirrorOps == 4

InitMirror == Installation(MaxMirrorOps)

NextMirror ==
    \/ StartupLock(FALSE)
    \/ StartupChecks(FALSE, FALSE)
    \/ StartupFinal
    \/ \E r \in {"None", "True"} : pre_singleinstall(SingleFile(NameA), r)
    \/ SingleMkdir
    \/ SingleRemove
    \/ SingleMove
    \/ \E ow \in Overwrites :
          pre_install(Archive(NameA, ".tar.gz", "named"), ow)
    \/ InstallBegin
    \/ InstallExtract
    \/ InstallMove
    \/ InstallClean
    \/ FinishInstall
    \/ pathify(NameA)
    \/ PathifyFish
    \/ PathifyRecord
    \/ add_binlink(PayloadFile, NameA)
    \/ BinlinkFish
    \/ BinlinkRecord
    \/ create_desktop(NameA, PayloadFile)
    \/ DesktopRecord
    \/ \E f \in BinlinkFiles : remove_desktop(NameA, DesktopName(f, NameA))
    \/ RemoveDesktopRecord
    \/ remove_paths_and_binlinks(NameA)
    \/ RemovePathsFish
    \/ RemovePathsRecord
    \/ Rename
    \/ Uninstall

SpecMirror == InitMirror /\ [][NextMirror]_vars

(***************************************************************************)
(* The recovery specification: a single-file program is installed, put on  *)
(* PATH, given a launcher and uninstalled; the process may be killed at    *)
(* any step and the engine started again.                                  *)
(***************************************************************************)
MaxRecoverOps == 3

InitRecover == Installation(MaxRecoverOps)

NextRecover ==
    \/ \E del_lock \in BOOLEAN : StartupLock(del_lock)
    \/ StartupChecks(FALSE, FALSE)
    \/ StartupFinal
    \/ pre_singleinstall(SingleFile(NameA), "None")
    \/ SingleMkdir
    \/ SingleMove
    \/ FinishInstall
    \/ pathify(NameA)
    \/ PathifyFish
    \/ PathifyRecord
    \/ create_desktop(NameA, NameA)
    \/ DesktopRecord
    \/ Uninstall
    \/ Crash

SpecRecover == InitRecover /\ [][NextRecover]_vars

(***************************************************************************)
(* The repair specification: programs are installed, put on PATH, given    *)
(* binlinks and uninstalled by a process that may be killed at any step,   *)
(* and the manifest is rebuilt by repair_db.                               *)
(***************************************************************************)
MaxRepairOps == 4

InitRepair == Installation(MaxRepairOps)

NextRepair ==
    \/ \E del_lock \in BOOLEAN : StartupLock(del_lock)
    \/ StartupChecks(FALSE, FALSE)
    \/ StartupFinal
    \/ pre_singleinstall(SingleFile(NameA), "None")
    \/ SingleMkdir
    \/ SingleMove
    \/ FinishInstall
    \/ pathify(NameA)
    \/ PathifyFish
    \/ PathifyRecord
    \/ add_binlink(PayloadFile, NameA)
    \/ BinlinkFish
    \/ BinlinkRecord
    \/ uninstall(NameA)
    \/ UninstallRmtree
    \/ UninstallProfile
    \/ UninstallRecord
    \/ repair_db
    \/ RepairPaths
    \/ RepairBinlinks
    \/ RepairBackup
    \/ RepairWrite
    \/ Crash

SpecRepair == InitRepair /\ [][NextRepair]_vars

(***************************************************************************)
(* The prefix specification: two programs of which one's name starts with  *)
(* the other's are installed and put on PATH, and the one with the shorter *)
(* name is renamed; no process is killed.                                  *)
(***************************************************************************)
MaxPrefixOps == 4

NameAB == <<"a", "b">>

PrefixNames == {NameA, NameAB}

InitPrefix == Installation(MaxPrefixOps)

NextPrefix ==
    \/ StartupLock(FALSE)
    \/ StartupChecks(FALSE, FALSE)
    \/ StartupFinal
    \/ \E n \in PrefixNames : pre_singleinstall(SingleFile(n), "None")
    \/ SingleMkdir
    \/ SingleMove
    \/ FinishInstall
    \/ \E p \in PrefixNames : pathify(p)
    \/ PathifyFish
    \/ PathifyRecord
    \/ rename(NameA, NameB)
    \/ RenameBashPath
    \/ RenameFishPath
    \/ RenameBashAlias
    \/ RenameFishAlias
    \/ RenameSingleBash
    \/ RenameSingleFish
    \/ RenameBashTag
    \/ RenameFishTag
    \/ RenameMove
    \/ RenameWrite
    \/ RenamePayload

SpecPrefix == InitPrefix /\ [][NextPrefix]_vars

(***************************************************************************)
(* The persistence specification: a program is installed, put on PATH and  *)
(* given and stripped of an update URL and an update script; no process is *)
(* killed.                                                                 *)
(***************************************************************************)
MaxPersistOps == 5

InitPersist == Installation(MaxPersistOps)

NextPersist ==
    \/ StartupLock(FALSE)
    \/ StartupChecks(FALSE, FALSE)
    \/ StartupFinal
    \/ pre_singleinstall(SingleFile(NameA), "None")
    \/ SingleMkdir
    \/ SingleMove
    \/ FinishInstall
    \/ pathify(NameA)
    \/ PathifyFish
    \/ PathifyRecord
    \/ add_upgrade_url(NameA, Url)
    \/ remove_update_url(NameA)
    \/ \E script_path \in {"", ScriptPath}, exists \in BOOLEAN :
          update_script(NameA, script_path, exists)

SpecPersist == InitPersist /\ [][NextPersist]_vars

(***************************************************************************)
(* The validation specification: the four install variants on sources that *)
(* are well formed, missing or malformed, or whose name holds an unsafe    *)
(* character.                                                              *)
(***************************************************************************)
MaxValidateOps == 2

Missing(a) == [a EXCEPT !.exists = FALSE]

Sources(S(_)) == {S(NameA), S(UnsafeName), Missing(S(NameA))}

FlatArchive(n) == Archive(n, ".tar.gz", "flat")

WellFormedUrl(n) == GitUrl(n, TRUE)

FolderAt(n) == Folder(n, TRUE)

NestedArchives == {Archive(NameA, ".tar.gz", l) : l \in {"named", "single"}}

InitValidate == Installation(MaxValidateOps)

NextValidate ==
    \/ StartupLock(FALSE)
    \/ StartupChecks(FALSE, FALSE)
    \/ StartupFinal
    \/ \E a \in Sources(FlatArchive) \cup NestedArchives, ow \in Overwrites : pre_install(a, ow)
    \/ InstallBegin
    \/ InstallExtract
    \/ InstallMove
    \/ InstallClean
    \/ FinishInstall
    \/ \E a \in Sources(WellFormedUrl), ow \in Overwrites, git \in BOOLEAN :
          pre_gitinstall(a, ow, git)
    \/ GitBegin
    \/ GitClone
    \/ GitSync
    \/ \E a \in Sources(FolderAt) \cup {ManagedFolder(NameA)},
          ow \in Overwrites : pre_dirinstall(a, ow)
    \/ DirBegin
    \/ DirMove
    \/ \E a \in Sources(SingleFile), r \in Overwrites : pre_singleinstall(a, r)
    \/ SingleMkdir
    \/ SingleRemove
    \/ SingleMove
    \/ UninstallRmtree
    \/ UninstallProfile
    \/ UninstallRecord

SpecValidate == InitValidate /\ [][NextValidate]_vars

(***************************************************************************)
(* The update specification: a started engine that manages one program,    *)
(* of any install type, with or without an update_url and a                *)
(* post_upgrade_script, on which update_program and update are called.     *)
(***************************************************************************)
MaxUpdateOps == 2

UpdateRecords ==
    {[NewRecord(t) EXCEPT !.update_url = u, !.post_upgrade_script = s] :
        t \in {"default", "git"}, u \in {"None", Url},
        s \in {"None", ScriptPath}}

InitUpdate ==
    /\ pc = "ready"
    /\ ctx = NoCtx
    /\ ret = Result("tarstall_startup", NoName, "Good")
    /\ \E r \in UpdateRecords : db = PutProgram(get_default_db, NameA, r)
    /\ disk = db
    /\ bin = PutDir(NoDirs, NameA, {PayloadFile})
    /\ bashrc = <<EngineLine>>
    /\ fishrc = <<EngineLine>>
    /\ apps = NoApps
    /\ temp = FALSE
    /\ lock = TRUE
    /\ engine = InstalledEngine("old")
    /\ staging = FALSE
    /\ crashes = 0
    /\ peer = "none"
    /\ temp2 = FALSE
    /\ backup = NotFound
    /\ ops = MaxUpdateOps
    /\ hist = History(disk)

UpdateProgram ==
    \/ \E p \in Names, exists \in BOOLEAN : update_program(p, exists)
    \/ update_git_program
    \/ UpdateProgramGit
    \/ wget_program
    \/ WgetDownload
    \/ WgetInstalled
    \/ UpdateProgramUrl
    \/ UpdateProgramScript

NextUpdate ==
    \/ UpdateProgram
    \/ InstallBegin
    \/ InstallExtract
    \/ InstallMove
    \/ InstallClean
    \/ \E force_update \in BOOLEAN : update(force_update)
    \/ Update

SpecUpdate == InitUpdate /\ [][NextUpdate]_vars

(***************************************************************************)
(* The release specification: the same installations, started, set up,     *)
(* switched between branches and erased, with no process killed: what the  *)
(* lock is when a lifecycle operation has returned.                        *)
(***************************************************************************)
Erase ==
    \/ erase
    \/ EraseDesktops
    \/ EraseWipe
    \/ EraseWipeRest
    \/ EraseTemp
    \/ EraseUnlock

NextRelease ==
    \/ \E del_lock \in BOOLEAN : StartupLock(del_lock)
    \/ StartupDowngradeCreate
    \/ StartupDowngradeReload
    \/ StartupDowngradeWipe
    \/ \E start_fts \in BOOLEAN, force_fix \in BOOLEAN :
          StartupChecks(start_fts, force_fix)
    \/ StartupMigrateStep
    \/ StartupMigrateWrite
    \/ StartupFinal
    \/ StartupReturn
    \/ FirstTimeSetup
    \/ Update
    \/ ChangeBranch
    \/ Erase

SpecRelease == InitStartup /\ [][NextRelease]_vars

(***************************************************************************)
(* The lock specification: two invocations of tarstall_startup run at the  *)
(* same time on one installation.  The first is the process of pc; of the  *)
(* second, peer says how far it is in lines 557-567: "none" (not begun),   *)
(* "tested" (config.locked() was false, config.lock() not yet called),     *)
(* "in" (past the lock check), "locked" or "unlocked" (returned).          *)
(***************************************************************************)
\* Lines 557-565 in the second invocation: the test of config.locked().
PeerTest(del_lock) ==
    /\ peer = "none"
    /\ IF lock
       THEN /\ peer' = IF del_lock THEN "unlocked" ELSE "locked"
            /\ lock' = (IF del_lock THEN FALSE ELSE lock)
       ELSE /\ peer' = "tested"
            /\ UNCHANGED lock
    /\ UNCHANGED <<pc, ctx, ret, dbvars, fsvars, engine, staging, crashes,
                   temp2, backup, ops, hist>>

\* Lines 566-567 in the second invocation: config.lock().
PeerLock ==
    /\ peer = "tested"
    /\ lock' = TRUE
    /\ peer' = "in"
    /\ UNCHANGED <<pc, ctx, ret, dbvars, fsvars, engine, staging, crashes,
                   temp2, backup, ops, hist>>

NextLock ==
    \/ StartupLock(FALSE)
    \/ StartupChecks(FALSE, FALSE)
    \/ StartupMigrateStep
    \/ StartupMigrateWrite
    \/ \E del_lock \in BOOLEAN : PeerTest(del_lock)
    \/ PeerLock

SpecLock == InitStartup /\ [][NextLock]_vars

(***************************************************************************)
(* The migration specification: the same installations, started and        *)
(* followed to the end of the migration loop, the process being killed at  *)
(* any step and started again.                                             *)
(***************************************************************************)
NextMigrate ==
    \/ \E del_lock \in BOOLEAN : StartupLock(del_lock)
    \/ StartupChecks(FALSE, FALSE)
    \/ StartupMigrateStep
    \/ StartupMigrateWrite
    \/ Crash

SpecMigrate == InitStartup /\ [][NextMigrate]_vars

\* A running process goes on with the migration loop unless it is killed.
LiveMigrate ==
    /\ SpecMigrate
    /\ WF_vars(StartupMigrateStep)
    /\ WF_vars(StartupMigrateWrite)

(***************************************************************************)
(* Claims.                                                                 *)
(***************************************************************************)

\* C1: a pre_install (overwrite unset) of a name the manifest does not hold
\* that returns "Installed", followed by an uninstall of that name that
\* returns "Success", leaves the manifest's programs and the set of program
\* directories of the managed tree as they were before the install.
RoundTrip ==
    hist.rt = "done" =>
        /\ disk.programs = hist.programs
        /\ DOMAIN bin = hist.dirs


Dangling(d, b, p) == p \in Installed(d) /\ p \notin DOMAIN b

UninstallOrder ==
    [][ctx.op \in {"uninstall", "pre_install"} =>
          LET p == ctx.prog IN
          /\ bashrc' # bashrc => p \notin DOMAIN bin
          /\ apps' # apps =>
                p \notin DOMAIN bin /\ TaggedLines(bashrc, p) = {}
          /\ (p \in Installed(disk) /\ p \notin Installed(disk')) =>
                /\ p \notin DOMAIN bin
                /\ TaggedLines(bashrc, p) = {}
                /\ \A d \in disk.programs[p].desktops : d \notin DOMAIN apps
          /\ (p \in Installed(disk) /\ p \in DOMAIN bin
                /\ p \notin DOMAIN bin') => disk' = disk]_vars

\* C3 witness: uninstall is about to delete the record of a program that
\* had a launcher file.
UninstallRecordReached ==
    /\ pc = "un_record"
    /\ ctx.op = "uninstall"
    /\ disk.programs[ctx.prog].desktops # {}

\* C4: after uninstall(p) has returned "Success", no line tagged p is left
\* in ~/.tarstall/.bashrc or in ~/.tarstall/.fishrc.
UninstallCleansProfiles ==
    (pc = "ready" /\ ret.op = "uninstall" /\ ret.val = "Success") =>
        /\ TaggedLines(bashrc, ret.prog) = {}
        /\ TaggedLines(fishrc, ret.prog) = {}

\* C5: pathify of an installed program with has_path = false returns
\* "Complete", a second pathify returns "Already there", and then each
\* profile file holds exactly one PATH line tagged for the program and the
\* manifest has has_path = true.
PathifyTwice ==
    /\ (pc = "ready" /\ hist.rt = "pathified") =>
          ret = Result("pathify", hist.prog, "Complete")
    /\ hist.rt = "pathified twice" =>
          /\ ret = Result("pathify", hist.prog, "Already there")
          /\ Cardinality(PathLines(bashrc, hist.prog)) = 1
          /\ Cardinality(PathLines(fishrc, hist.prog)) = 1
          /\ disk.programs[hist.prog].has_path

\* C6: rename(p, q) with q a key of the manifest's programs returns None and
\* changes nothing: not the managed tree, the manifest, a profile line or a
\* launcher file.
RenameCollision ==
    [][\A p \in Names, q \in Names :
          (rename(p, q) /\ q \in Installed(db)) =>
             /\ ret' = Result("rename", p, "None")
             /\ pc' = "ready"
             /\ UNCHANGED <<db, disk, bin, bashrc, fishrc, apps, temp>>]_vars

\* C6 witness: a rename onto the name of another installed program has
\* returned None.
RenameCollisionReached ==
    /\ pc = "ready"
    /\ ret.op = "rename"
    /\ ret.val = "None"
    /\ \E q \in Installed(disk) : q # ret.prog

\* The migration loop run to its end on manifest d without interruption.
RECURSIVE Migrated(_)
Migrated(d) ==
    IF MigrationPending(d)
    THEN Migrated(BumpVersion(MigrationStep(get_file_version(d), d)))
    ELSE d

\* C7: whatever manifest below the engine's file version was persisted when
\* the engine was first started, and at whatever steps the startups were
\* killed and run again, the manifest persisted when the migration loop is
\* left is the one an uninterrupted run of the loop yields.
MigrationResumes == pc = "st_final" => disk = Migrated(hist.origin)

\* C7 witness: the loop is left after a startup was killed in the middle of
\* a chain of at least two steps over a manifest that records programs.
ResumedMigration ==
    /\ pc = "st_final"
    /\ crashes > 0
    /\ get_file_version(hist.origin) + 2 <= FileVersion
    /\ get_file_version(hist.origin) < get_file_version(disk)
    /\ hist.origin.programs # NoPrograms
    /\ disk # hist.origin

\* C8: during the migration of tarstall_startup the persisted file_version
\* never decreases and only a write of the loop changes it, by exactly one;
\* a persisted manifest the loop has yet to migrate, and every manifest the
\* loop persists, has records and options in the shape of its file_version;
\* and the loop ends, with file_version that of the engine.
MigrationSteps ==
    /\ [][(ctx.op = "tarstall_startup" /\ HasPrograms(disk)
              /\ HasPrograms(disk')) =>
            LET v == get_file_version(disk)
                w == get_file_version(disk')
            IN  /\ w = v \/ (w = v + 1 /\ pc = "st_mg_write")
                /\ (pc \in {"st_mg_step", "st_mg_write"} /\ disk' # disk) =>
                      w = v + 1]_vars
    /\ []((HasPrograms(disk) /\ MigrationPending(disk)) => InShape(disk))
    /\ [][pc = "st_mg_write" /\ disk' # disk => InShape(disk')]_vars
    /\ [](pc = "st_final" =>
            /\ get_file_version(disk) = FileVersion
            /\ get_file_version(db) = FileVersion)
    /\ (pc \in {"st_mg_step", "st_mg_write"}) ~> (pc \in {"st_final", "idle"})

\* C8 witness: the loop has persisted a step of a manifest that records
\* programs and has more steps to make.
MigrationUnderWay ==
    /\ pc = "st_mg_step"
    /\ get_file_version(disk) > get_file_version(hist.origin)
    /\ disk.programs # NoPrograms

\* C9: when tarstall_startup finds the sentinel with the lock free, each
\* later step of the startup (first-time setup, the installed check,
\* migration, the old-version check and auto-update, the root check) begins
\* with a fresh default manifest with no programs, persisted and in memory,
\* and an empty managed tree.
SentinelReset ==
    (ctx.op = "tarstall_startup" /\ ctx.refresh
        /\ pc \in {"st_checks", "fts_check", "st_mg_step", "st_final",
                   "up_check", "up_compare", "st_root"}) =>
       /\ disk = get_default_db
       /\ db = get_default_db
       /\ disk.programs = NoPrograms
       /\ bin = NoDirs

\* C9 witness: the downgrade block is done on an installation whose
\* manifest recorded programs, with their directories, before the sentinel
\* was written.
SentinelResetDone ==
    /\ pc = "st_checks"
    /\ ctx.refresh
    /\ hist.origin.programs # NoPrograms

\* C10 (as stated): change_branch deletes no program directory and no
\* launcher file.
BranchResetDeletesNothing ==
    [][ctx.op = "change_branch" => (bin' = bin /\ apps' = apps)]_vars

\* C10 (amended): a change_branch("master", reset=True) that returns "Reset"
\* has persisted the sentinel and released the lock; change_branch never
\* touches the managed tree, which is wiped by the next startup that finds
\* the sentinel; but the launcher files the manifest records are deleted
\* in that invocation, before the sentinel is written.
BranchReset ==
    /\ [](ret = Result("change_branch", NoName, "Reset") /\ pc = "idle" =>
            disk = Sentinel /\ ~lock)
    /\ [][ctx.op = "change_branch" =>
            /\ bin' = bin
            /\ apps' # apps => pc = "cb_desktops"
            /\ disk' = Sentinel /\ disk # Sentinel =>
                  \A p \in Installed(disk) :
                     \A d \in disk.programs[p].desktops : d \notin DOMAIN apps]_vars

\* C10 witness: "Reset" was returned on an installation with a program
\* directory and a recorded launcher file.
BranchResetDone ==
    /\ pc = "idle"
    /\ ret = Result("change_branch", NoName, "Reset")
    /\ bin # NoDirs
    /\ hist.origin.programs # NoPrograms
    /\ \E p \in DOMAIN hist.origin.programs :
          hist.origin.programs[p].desktops # {}

\* C11: a tarstall_startup that finds the lock held either is asked to clear
\* it (del_lock) and returns "Unlocked", or returns "Locked" and changes
\* nothing: the persisted manifest, the managed tree, the profile files, the
\* launcher files and the lock are as they were, and no step of the startup
\* is entered, whether or not a sentinel reset or a migration is pending.
LockedStartup ==
    [][pc = "idle" /\ lock =>
          \/ ret'.val = "Unlocked" /\ ~lock'
          \/ /\ ret'.val = "Locked"
             /\ UNCHANGED <<disk, bin, bashrc, fishrc, apps, temp, lock,
                            engine, staging, pc>>]_vars

\* C11 witness: "Locked" was returned while the sentinel was persisted and
\* the managed tree still held program directories.
LockedOnSentinel ==
    /\ pc = "idle"
    /\ lock
    /\ ret = Result("tarstall_startup", NoName, "Locked")
    /\ disk = Sentinel
    /\ bin # NoDirs

\* C12: of two concurrent invocations of tarstall_startup at most one is
\* past the lock check: the process of pc and the second invocation are
\* never both past it.
MutualExclusion == ~(pc # "idle" /\ peer = "in")

\* The statuses each lifecycle operation returns.
SetupStatuses ==
    {"Already installed", "Bad copy", "Success", "Unsupported shell"}

EraseStatuses == {"Not installed", "Erased"}

BranchStatuses == {"Bad branch", "Success", "Waiting", "Reset"}

\* C13: when first_time_setup, erase or change_branch has returned, after
\* tarstall_startup acquired the lock, the lock is not held.
LockReleased ==
    /\ pc \in {"idle", "ready"}
    /\ \/ ret.op = "tarstall_startup" /\ ret.val \in SetupStatuses
       \/ ret.op = "erase" /\ ret.val \in EraseStatuses
       \/ ret.op = "change_branch" /\ ret.val \in BranchStatuses
    => ~lock

\* C14: a call of an install variant (pre_install, pre_gitinstall,
\* pre_dirinstall, pre_singleinstall) for a name the manifest holds, with
\* overwrite unset, returns "Application exists" at once and changes
\* nothing: not the manifest, the managed tree, a profile file, a launcher
\* file or the staging area.
AskBeforeOverwrite ==
    [][pc = "ready" /\ hist'.rt = "asking" =>
          /\ ret'.val = "Application exists"
          /\ pc' = "ready"
          /\ UNCHANGED <<db, disk, bin, bashrc, fishrc, apps, temp, lock,
                         engine, staging>>]_vars

\* C14 witness: pre_gitinstall has returned "Application exists" for a
\* program that has a directory.
AskedBeforeOverwrite ==
    /\ pc = "ready"
    /\ hist.rt = "asking"
    /\ ret = Result("pre_gitinstall", hist.prog, "Application exists")
    /\ hist.prog \in DOMAIN bin

\* The fields of a record that do not depend on the content installed.
KeptFields == {"has_path", "binlinks", "desktops"}

\* C15: an install variant that returns "Installed" for a name the manifest
\* held, with overwrite true, leaves has_path, binlinks and desktops of the
\* record as they were before the call.
OverwriteKeepsFields ==
    (/\ pc = "ready"
     /\ hist.rt = "overwriting"
     /\ ret.val = "Installed"
     /\ ret.prog = hist.prog) =>
        /\ hist.prog \in Installed(disk)
        /\ \A k \in KeptFields :
              disk.programs[hist.prog][k] = hist.programs[hist.prog][k]

\* C16: an install variant that returns "Installed" for a name the manifest
\* held, with overwrite false, leaves a record with default fields, no
\* profile line tagged for the program and no launcher file of the record
\* it replaced.
ReplaceInstallsFresh ==
    (/\ pc = "ready"
     /\ hist.rt = "replacing"
     /\ ret.val = "Installed"
     /\ ret.prog = hist.prog) =>
        LET p == hist.prog IN
        /\ p \in Installed(disk)
        /\ ~disk.programs[p].has_path
        /\ disk.programs[p].binlinks = {}
        /\ disk.programs[p].desktops = {}
        /\ TaggedLines(bashrc, p) = {}
        /\ TaggedLines(fishrc, p) = {}
        /\ \A d \in hist.programs[p].desktops : d \notin DOMAIN apps

(***************************************************************************)
(* update_program and update.                                              *)
(***************************************************************************)
\* The call of update_program on hist.prog has returned; hist.programs and
\* hist.dirs are the records and the program's directory as they were when
\* it was called.
Upgraded == pc = "ready" /\ ret.op = "update_program" /\ hist.rt = "upgrading"

Ran(what) == \E i \in 1..Len(hist.ran) : hist.ran[i] = what

FetchedGit == Ran("git")

FetchedUrl == Ran("wget") \/ Ran("wget failed") \/ Ran("no wget")

ScriptRan == Ran("script") \/ Ran("script failed")

\* C17: update_program runs every source that applies: when it has returned
\* for a git-installed program with an update_url whose pull did not fail,
\* the download was made too, and when it has returned "Success" or
\* "No update" for a program with a post_upgrade_script, the script was run.
SourcesCompose ==
    Upgraded /\ ret.val # "No script" =>
       LET r == hist.programs[hist.prog]
       IN  /\ r.install_type = "git" /\ r.update_url # "None" /\ FetchedGit
                 => FetchedUrl
           /\ r.post_upgrade_script # "None"
                 /\ ret.val \in {"Success", "No update"}
                 => ScriptRan

\* The statuses with which a fetch fails.
FetchFailures ==
    {"No git", "Error updating", "No wget", "Wget error", "Install error"}

FetchFailed ==
    Ran("no git") \/ Ran("git failed") \/ Ran("no wget") \/ Ran("wget failed")

\* The managed tree and the manifest's records are as they were when
\* update_program was called.
AsWhenCalled ==
    /\ disk.programs = hist.programs
    /\ db.programs = hist.programs
    /\ DOMAIN bin = {hist.prog}
    /\ bin[hist.prog] = hist.dirs

ScriptIsLast ==
    /\ \A i \in 1..Len(hist.ran) :
          hist.ran[i] \in {"script", "script failed"} => i = Len(hist.ran)
    /\ FetchFailed => ~ScriptRan /\ pc # "ug_script"
    /\ Upgraded =>
          /\ Ran("no git") => ret.val = "No git"
          /\ Ran("git failed") => ret.val = "Error updating"
          /\ Ran("no wget") => ret.val = "No wget"
          /\ Ran("wget failed") => ret.val = "Wget error"
          /\ ret.val \in FetchFailures => ~ScriptRan
          /\ Ran("script failed") <=> ret.val = "Script error"
          /\ LET r == hist.programs[hist.prog]
             IN  r.install_type # "git" /\ r.update_url = "None"
                    /\ r.post_upgrade_script = "None"
                    => /\ ret.val = "Does not update"
                       /\ hist.ran = <<>>
                       /\ AsWhenCalled

\* A fetch that failed makes update_program return the fetch's status.
FailedFetchReturns ==
    pc \in {"ug_done", "wg_done"} /\ ctx.status \in FetchFailures =>
       /\ pc' = "ready"
       /\ ret' = Result("update_program", ctx.prog, ctx.status)

\* C18: in update_program the script is the last source to run and never
\* runs once a fetch has failed; a failed fetch (the failed install of the
\* downloaded archive included) returns its own status, a script that exits
\* non-zero returns "Script error", which no fetch returns, and a program
\* with no source returns "Does not update" with the manifest's records and
\* the managed tree as they were.
ScriptAfterFetch == []ScriptIsLast /\ [][FailedFetchReturns]_vars

\* C18 witness: the script ran after the download and its install, exited
\* non-zero, and update_program returned "Script error".
ScriptFailedAfterFetch ==
    /\ Upgraded
    /\ hist.ran = <<"wget", "script failed">>
    /\ ret.val = "Script error"

\* C19: when update_program has returned for a program with an update_url
\* whose download failed (wget is missing or exited non-zero), it returned
\* "No wget" or "Wget error", and the program's record, persisted and in
\* memory, and its directory are as they were when it was called.
FailedDownloadKeeps ==
    Upgraded /\ hist.programs[hist.prog].update_url # "None"
             /\ (Ran("no wget") \/ Ran("wget failed")) =>
       /\ ret.val = IF Ran("no wget") THEN "No wget" ELSE "Wget error"
       /\ AsWhenCalled

\* C19 witness: wget exited non-zero and update_program has returned; the
\* download directory /tmp/tarstall-temp2 is still there.
DownloadFailed ==
    /\ Upgraded
    /\ hist.programs[hist.prog].update_url # "None"
    /\ hist.ran = <<"wget failed">>
    /\ ret.val = "Wget error"
    /\ temp2

\* What an ordinary update does at its checks and at the comparison of the
\* version online (ctx.online) with the installed one.
OrdinaryCompare ==
    ~ctx.force =>
       /\ pc \in {"up_check", "up_compare"} =>
             UNCHANGED <<db, disk, engine, bin, bashrc, fishrc, apps>>
       /\ pc = "up_compare" /\ ctx.online > ProgVersion =>
             pc' = "up_clone" /\ UNCHANGED ret
       /\ pc = "up_compare" /\ ctx.online <= ProgVersion =>
             /\ pc' # "up_clone"
             /\ UNCHANGED staging
             /\ ctx.op = "update" =>
                   /\ pc' = "ready"
                   /\ ret'.op = "update"
                   /\ ret'.val = IF ctx.online < ProgVersion
                                 THEN "Newer version" ELSE "No update"

\* An ordinary update that returned "Updated" found a greater version
\* online, recorded it and put the new files in place.
UpdatedIsGreater ==
    pc = "ready" /\ hist.rt = "updating"
                 /\ ret = Result("update", NoName, "Updated") =>
       /\ disk.version.prog_internal_version > ProgVersion
       /\ db = disk
       /\ engine = InstalledEngine("new")
       /\ ~staging

UpdateSteps ==
    {"up_check", "up_compare", "up_clone", "up_list", "up_remove", "up_move",
     "up_clean"}

\* The manifest m2 is m1, or m1 with the version an ordinary update found
\* online.
OnlyVersionSet(m1, m2) ==
    \/ m2 = m1
    \/ /\ pc = "up_clean"
       /\ ~ctx.force
       /\ m2 = [m1 EXCEPT !.version.prog_internal_version = ctx.online]

UpdateStepFrame ==
    pc \in UpdateSteps =>
       /\ UNCHANGED <<bin, bashrc, fishrc>>
       /\ OnlyVersionSet(disk, disk')
       /\ OnlyVersionSet(db, db') \/ db' = disk

\* C21: no step of update changes the managed tree, .bashrc or .fishrc, and
\* the only change a step makes to the manifest, persisted or in memory, is
\* the version an ordinary update sets when it has put the new files in
\* place (an update that ends by an exception drops the in-memory manifest
\* for the persisted one).
UpdateFrame == [][UpdateStepFrame]_vars

\* C21 witness: update has replaced the engine's files and returned
\* "Updated" with the program's directory, record and profile lines there.
UpdatedAroundPrograms ==
    /\ pc = "ready"
    /\ ret = Result("update", NoName, "Updated")
    /\ engine = InstalledEngine("new")
    /\ NameA \in Installed(disk)
    /\ bin = PutDir(NoDirs, NameA, {PayloadFile})
    /\ bashrc = <<EngineLine>>

(***************************************************************************)
(* The install variants: failures of the external tools, staging,          *)
(* validation.                                                             *)
(***************************************************************************)
InstallOps ==
    {"pre_install", "pre_gitinstall", "pre_dirinstall", "pre_singleinstall"}

\* C22: once the extraction or the clone of an install variant has exited
\* non-zero, the install does not reach the step that records the program,
\* and what it returns is a failure status, not "Installed".
ToolFailureAborts ==
    (ctx.op \in InstallOps \/ ret.op \in InstallOps)
       /\ (Ran("extract failed") \/ Ran("clone failed")) =>
          /\ pc # "fin_record"
          /\ pc = "ready" => ret.val # "Installed"

\* C23: when an install variant or update_program has returned, whatever
\* the status, neither /tmp/tarstall-temp nor /tmp/tarstall-temp2 exists.
StagingCleaned ==
    pc = "ready" /\ ret.op \in InstallOps \cup {"update_program"} =>
       ~temp /\ ~temp2

\* C24: no install variant goes on with a source that is missing or
\* malformed, an install of a name with an unsafe character gets no further
\* than the check of the name and returns "Bad name" (or an earlier
\* validation status), and no such name is ever recorded in the manifest or
\* given a directory in the managed tree.
ValidatedFirst ==
    /\ ctx.op \in InstallOps => ctx.arch.exists
    /\ ctx.op \in InstallOps /\ char_check(ctx.prog) => pc = "in_begin"
    /\ \A n \in Installed(disk) \cup Installed(db) \cup DOMAIN bin :
          ~char_check(n)
    /\ pc = "ready" /\ ret.op \in InstallOps /\ char_check(ret.prog) =>
          ret.val \in {"Bad name", "Bad file", "Bad URL", "Bad folder", "No git"}

\* C25: pre_dirinstall goes on only with a source that is a directory and
\* is not the program's own directory in the managed tree: whatever
\* overwrite is, no install of another source is ever in progress, so the
\* program's directory and record stay as they are.
OwnDirectoryRejected ==
    ctx.op = "pre_dirinstall" =>
       ctx.arch.exists /\ ctx.arch.layout # "managed"

\* The step of gitinstall whose clone fails.
CloneFails == pc = "gi_clone" /\ hist'.ran # hist.ran

CloneFailureStep ==
    CloneFails =>
       /\ pc' = "ready"
       /\ ret'.val = "Error"
       /\ bin' = bin
       /\ db' = db
       /\ disk' = disk

ArchiveMoved == pc = "in_move" /\ pc' = "in_clean" /\ ctx.extracted

CollapseStep ==
    ArchiveMoved =>
       LET old == IF ctx.prog \in DOMAIN bin THEN bin[ctx.prog] ELSE {}
           expected == IF ctx.arch.layout \in {"named", "single"}
                       THEN {PayloadFile}
                       ELSE ExtractedDirs(ctx.arch) \cup ExtractedFiles(ctx.arch)
       IN  bin'[ctx.prog] = old \cup expected

ArchiveRecordStep ==
    pc = "fin_record" /\ ctx.op = "pre_install" /\ pc' = "ready" =>
       /\ ctx.prog \in Installed(db')
       /\ db'.programs[ctx.prog].install_type = "default"
       /\ ret'.val = "Installed"

Leq(v, w) == v.n * w.d <= w.n * v.d

Integral(v) == v.n % v.d = 0

Percentage(v) == 0 <= v.n /\ v.n <= 100 * v.d

\* The public operations that report progress (wget_program runs inside
\* update_program).
ProgressOps ==
    {"pre_install", "update_program", "change_branch", "update", "uninstall"}

\* C28: within one public operation the values passed to generic.progress
\* are integers between 0 and 100 and never decrease.
ProgressMonotone ==
    ctx.op \in ProgressOps \/ (pc = "ready" /\ ret.op \in ProgressOps) =>
       \A i \in 1..Len(hist.bar) :
          /\ Integral(hist.bar[i])
          /\ Percentage(hist.bar[i])
          /\ i > 1 => Leq(hist.bar[i - 1], hist.bar[i])

\* How many lines of a profile file are the alias n tagged p.
AliasLines(file, n, p) ==
    {i \in 1..Len(file) :
        file[i].kind = "alias" /\ file[i].name = n /\ file[i].tag = p}

MirrorsProfile(file, p) ==
    /\ db.programs[p].has_path <=> PathLines(file, p) # {}
    /\ \A n \in db.programs[p].binlinks :
          Cardinality(AliasLines(file, n, p)) = 1

\* C29: between operations the manifest mirrors the profile files and the
\* launcher directory: has_path with a PATH line tagged by the program,
\* each binlink with exactly one alias line, each desktop entry with a
\* launcher file that exists.
ManifestMirrors ==
    pc = "ready" =>
       \A p \in Installed(db) :
          /\ MirrorsProfile(bashrc, p)
          /\ MirrorsProfile(fishrc, p)
          /\ \A d \in db.programs[p].desktops : d \in DOMAIN apps

\* The operations that change a profile file or a launcher file and then
\* a field of the manifest, and their last step.
MirrorOps ==
    {"pathify", "add_binlink", "remove_paths_and_binlinks", "create_desktop",
     "remove_desktop"}

RecordPcs == {"pa_record", "ab_record", "rp_record", "cd_record", "rd_record"}

\* The external change of the operation in progress has been made.
ExternalDone ==
    CASE pc = "pa_record" ->
            PathLines(bashrc, ctx.prog) # {} /\ PathLines(fishrc, ctx.prog) # {}
      [] pc = "ab_record" ->
            /\ AliasLines(bashrc, ctx.new, ctx.prog) # {}
            /\ AliasLines(fishrc, ctx.new, ctx.prog) # {}
      [] pc = "rp_record" ->
            /\ TaggedLines(bashrc, ctx.prog) = {}
            /\ TaggedLines(fishrc, ctx.prog) = {}
      [] pc = "cd_record" -> DesktopName(ctx.new, ctx.prog) \in DOMAIN apps
      [] pc = "rd_record" -> ctx.todo \cap DOMAIN apps = {}
      [] OTHER -> FALSE

ExternalFirstStep ==
    /\ pc \in RecordPcs =>
          /\ ExternalDone
          /\ \/ pc' = "idle" /\ disk' = disk
             \/ pc' = "ready" /\ disk' = db' /\ disk' # disk
          /\ UNCHANGED <<bashrc, fishrc, apps>>
    /\ (ctx.op \in MirrorOps \/ ctx'.op \in MirrorOps) /\ pc \notin RecordPcs =>
          /\ disk' = disk
          /\ <<bashrc, fishrc, apps>>' # <<bashrc, fishrc, apps>> =>
                pc' \in RecordPcs \cup {"pa_fish", "ab_fish", "rp_fish"}

\* C30: pathify, add_binlink, remove_paths_and_binlinks, create_desktop and
\* remove_desktop change the profile files or the launcher file first and
\* persist the manifest field last: the write is the step that follows the
\* last external change, and no external change follows the write.
ExternalFirst == [][ExternalFirstStep]_vars

\* The tagged lines are gone from both profile files and the manifest that
\* is persisted still has the program on PATH.
LinesGoneBeforeWrite ==
    /\ pc = "rp_record"
    /\ disk.programs[ctx.prog].has_path
    /\ TaggedLines(bashrc, ctx.prog) = {}
    /\ TaggedLines(fishrc, ctx.prog) = {}

\* remove_paths_and_binlinks(p) has returned "Complete" and nothing was
\* called since.
RemovedPaths(p) ==
    pc = "ready" /\ ret = Result("remove_paths_and_binlinks", p, "Complete")

\* No line of a profile file is tagged p and the record of p has neither a
\* PATH entry nor binlinks.
NothingTagged(p) ==
    /\ p \in Installed(db)
    /\ TaggedLines(bashrc, p) = {}
    /\ TaggedLines(fishrc, p) = {}
    /\ ~db.programs[p].has_path
    /\ db.programs[p].binlinks = {}

\* The step is a call of remove_paths_and_binlinks(p).
RemovePathsCalled(p) ==
    /\ pc = "ready"
    /\ \/ ctx'.op = "remove_paths_and_binlinks" /\ ctx'.prog = p
       \/ /\ ret'.op = "remove_paths_and_binlinks" /\ ret'.prog = p
          /\ ops' = ops - 1

RemoveAgainStep ==
    \A p \in Names :
       RemovedPaths(p) =>
          /\ NothingTagged(p)
          /\ RemovePathsCalled(p) =>
                /\ pc' = "ready"
                /\ ret' = Result("remove_paths_and_binlinks", p, "None exist")
                /\ UNCHANGED <<bashrc, fishrc, db, disk>>

\* C31: once remove_paths_and_binlinks(p) has returned "Complete", no line
\* of .bashrc or .fishrc is tagged p, has_path of p is false and its
\* binlinks are empty; calling it again returns "None exist" and changes
\* neither the profile files nor the manifest.
RemoveIdempotent == [][RemoveAgainStep]_vars

\* remove_paths_and_binlinks has returned "Complete" for a program that had
\* tagged lines, and the caller may call it again.
RemovedAndCallable ==
    /\ RemovedPaths(NameA)
    /\ ops > 0

\* The places that refer to a program by the name n: its directory, its
\* manifest key, the tags and paths of the profile lines, and the names and
\* paths of the launcher files.
RefersTo(n) ==
    {"directory" : x \in {y \in DOMAIN bin : y = n}}
    \cup {"key" : x \in {y \in Installed(disk) : y = n}}
    \cup {"bashrc" : i \in {j \in 1..Len(bashrc) :
                              n \in {bashrc[j].tag, bashrc[j].dir}}}
    \cup {"fishrc" : i \in {j \in 1..Len(fishrc) :
                              n \in {fishrc[j].tag, fishrc[j].dir}}}
    \cup {"launcher" : d \in {e \in DOMAIN apps :
                                 n \in {apps[e].dir, e[2]}}}

\* rename was interrupted.
RenameKilled == pc = "idle" /\ ret.op = "rename" /\ ret.val = "Killed"

\* Everything refers to one name.
RenameDeterminate ==
    RenameKilled =>
       \E n \in Names : \A m \in Names \ {n} : RefersTo(m) = {}

\* A step of rename that changes a launcher file finds no profile line
\* of the old name left, and a step that changes a profile file finds no
\* launcher file of the new name yet.
RenameOrderStep ==
    ctx.op = "rename" =>
       /\ apps' # apps =>
             {"bashrc", "fishrc"} \cap RefersTo(ctx.prog) = {}
       /\ <<bashrc, fishrc>>' # <<bashrc, fishrc>> =>
             "launcher" \notin RefersTo(ctx.new)

\* C32: rename(p, q) rewrites .bashrc and .fishrc before any launcher
\* file, and an interruption at any point of rename leaves directory name,
\* manifest key, profile tags and paths and launcher files all referring
\* to p or all referring to q.
RenameProfilesFirst == [][RenameOrderStep]_vars /\ []RenameDeterminate

\* What rename(p, q) has to have moved before the key changes: the profile
\* lines, the directory, the single file and the launcher paths.
RenameMoved(p, q, single) ==
    /\ {"bashrc", "fishrc", "directory"} \cap RefersTo(p) = {}
    /\ q \in DOMAIN bin
    /\ single => p \notin bin[q] /\ q \in bin[q]
    /\ q \in Installed(db)
    /\ \A e \in db.programs[q].desktops \cap DOMAIN apps : apps[e].dir # p

RenameKeyStep ==
    ctx.op = "rename" =>
       /\ disk' # disk =>
             /\ RenameMoved(ctx.prog, ctx.new, ctx.single)
             /\ pc' = "ready"
       /\ pc' = "ready" =>
             /\ ctx.new \in Installed(disk')
             /\ disk'.programs[ctx.new].desktops \subseteq DOMAIN apps'

\* C33: in rename(p, q) the manifest with key q is persisted as the last
\* step, after the profile lines are rewritten, the directory and the
\* single file are moved and the launcher files are relocated; when rename
\* returns, the desktops of the record name launcher files that exist.
RenameKeyLast == [][RenameKeyStep]_vars

\* The record of p is persisted and its directory is gone.
Orphan(p) == p \in Installed(disk) /\ p \notin DOMAIN bin

\* uninstall(p) is at its first step, line 1492, and finds the record of p
\* without its directory: an earlier uninstall(p) was interrupted after
\* line 1492.  The step does not raise.
OrphanStep ==
    \A p \in Names :
       pc = "un_rmtree" /\ ctx.op = "uninstall" /\ ctx.prog = p /\ Orphan(p) =>
          /\ pc' = "idle" => ret'.val = "Killed"
          /\ pc' # "idle" => pc' = "un_profile"

\* C34: when uninstall(p) was interrupted after the directory was removed
\* and before the record was deleted, uninstall(p) called again completes:
\* it returns "Success" and p is absent from the manifest, the profile
\* files and the launcher directory.
OrphanRecoverable == [][OrphanStep]_vars

\* tarstall_startup has gone past the downgrade check and returned.
StartupDone == pc = "ready" /\ ret.op = "tarstall_startup"

\* C35: the reset the sentinel asks for survives an interruption of
\* tarstall_startup: a later startup never returns with a manifest of no
\* programs persisted while program directories are still in the managed
\* tree.
ResetCrashSafe ==
    StartupDone /\ HasPrograms(disk) /\ Installed(disk) = {} => DOMAIN bin = {}

\* The steps of update.
UpdatePcs ==
    {"up_check", "up_compare", "up_clone", "up_list", "up_remove", "up_move",
     "up_clean"}

\* The installed engine is one complete set of files.
EngineWhole == engine \in {InstalledEngine("old"), InstalledEngine("new")}

\* At every step of update the engine is whole.
EngineWholeInUpdate == pc \in UpdatePcs => EngineWhole

\* An engine file changes only once the clone is in the staging directory,
\* and a clone that fails changes none.
UpdateSwapStep ==
    /\ engine' # engine => staging /\ pc \in {"up_remove", "up_move"}
    /\ pc = "up_clone" /\ pc' \notin {"up_list", "idle"} => engine' = engine

\* C36: update fetches the new version into the staging directory before
\* it removes an installed engine file, a failed clone leaves every engine
\* file in place, and at every step of update the installed engine is the
\* complete old set of files or the complete new one.
UpdateAtomic ==
    [][UpdateSwapStep]_vars /\ []EngineWholeInUpdate

\* The manifest that is persisted has exactly the directories of the
\* managed tree as programs, with has_path and binlinks as the tagged
\* lines of .bashrc say and no update source.
Rebuilt ==
    /\ Installed(disk) = DOMAIN bin
    /\ \A p \in Installed(disk) :
          /\ disk.programs[p].has_path <=> PathLines(bashrc, p) # {}
          /\ disk.programs[p].binlinks =
                {n \in Names \cup BinlinkFiles :
                    AliasLines(bashrc, n, p) # {}}
          /\ disk.programs[p].update_url = "None"
          /\ disk.programs[p].post_upgrade_script = "None"

\* A step of repair_db does not raise; the step that writes the manifest
\* finds the database file moved to the backup, and the manifest it
\* writes is the rebuilt one.
RepairStep ==
    ctx.op = "repair_db" =>
       /\ pc' = "idle" => ret'.val = "Killed"
       /\ disk' # disk /\ disk' # NotFound =>
             disk = NotFound /\ backup # NotFound /\ Rebuilt'
       /\ pc' = "ready" => Rebuilt'

\* C37: repair_db completes whatever the managed tree and .bashrc hold; the
\* manifest it persists has exactly the directories of the managed tree as
\* programs, has_path for those with a tagged PATH line, the tagged alias
\* names as binlinks and no update_url or post_upgrade_script, and the
\* previous database file is moved to a backup before the new one is
\* written.
RepairRebuilds == [][RepairStep]_vars

\* What belongs to the program r: the profile lines tagged r, its launcher
\* files, its directory and its record.
Belongings(r, file1, file2, a, b, d) ==
    [bashrc |-> {file1[i] : i \in TaggedLines(file1, r)},
     fishrc |-> {file2[i] : i \in TaggedLines(file2, r)},
     launchers |-> {<<e, a[e]>> : e \in {x \in DOMAIN a : x[2] = r}},
     directory |-> IF r \in DOMAIN b THEN {b[r]} ELSE {},
     record |-> IF r \in Installed(d) THEN {d.programs[r]} ELSE {}]

RenameFrameStep ==
    ctx.op = "rename" =>
       \A r \in (Installed(db) \cup DOMAIN bin) \ {ctx.prog, ctx.new} :
          Belongings(r, bashrc', fishrc', apps', bin', db')
             = Belongings(r, bashrc, fishrc, apps, bin, db)

\* C38: rename(p, q) leaves what belongs to every other installed program
\* as it is, also when the other program's name starts with p: its tagged
\* profile lines, its launcher files, its directory and its record.
RenameFrame == [][RenameFrameStep]_vars

\* C39: whenever an operation has returned, the persisted manifest is the
\* in-memory one; after update_script(p, "") has returned "Wiped" the
\* persisted record of p has no post_upgrade_script.
PersistedOnReturn == pc = "ready" => disk = db

\* An install variant called with overwrite false on the installed name
\* hist.prog has returned a status that is not "Installed".
ReinstallFailed ==
    /\ pc = "ready"
    /\ hist.rt = "replacing"
    /\ ret.op \in InstallOps
    /\ ret.prog = hist.prog
    /\ ret.val # "Installed"

\* The directory and the record of the program are still there.
ReinstallKeeps ==
    ReinstallFailed =>
       hist.prog \in Installed(disk) /\ hist.prog \in DOMAIN bin

\* An install variant that returns a failure status at once has changed
\* neither the manifest nor the managed tree.
RejectedStep ==
    pc = "ready" /\ pc' = "ready" /\ ret'.op \in InstallOps =>
       UNCHANGED <<db, disk, bin>>

\* C40: when pre_install, pre_gitinstall or pre_dirinstall is called with
\* overwrite false on an installed name and returns a failure status, the
\* directory and the record of the program that was installed are still
\* present.
ReinstallSafe == [][RejectedStep]_vars /\ []ReinstallKeeps

====
